---- MODULE Spec2Model ----
(***************************************************************************)
(* State-management core of the tudu task manager (src/src/App.jsx):       *)
(* the recurrence calculator, the path-addressed tree update, the task     *)
(* tree reducer and the undo/redo history wrapper.                          *)
(*                                                                         *)
(* JavaScript values are modelled as follows.                               *)
(*  - a task is a record; a key the object does not have is a field the    *)
(*    record does not have.  `text` stands for the fields the reducer only  *)
(*    copies from the payload (text, priority, tags, description).          *)
(*  - an array is a sequence; the reducer's `state` is the forest.          *)
(*  - a date-valued field holds a tagged value: [k |-> "date", v |-> n]     *)
(*    for the string "YYYY-MM-DD" (n = YYYYMMDD), JsEmpty for "", JsNull    *)
(*    for null, JsUndefined for undefined.                                  *)
(*  - object identity (===) of the reducer's result with its argument is    *)
(*    carried in the result's `ref` field: "state" when the reducer         *)
(*    returns its argument itself, "fresh" when it returns a new array.     *)
(*  - an action is [type, payload].  Where the code dispatches no payload    *)
(*    (CLEAR_COMPLETED, UNDO, REDO) the payload is [id |-> 0], which no      *)
(*    branch reads; the array that is IMPORT_TODOS's payload is carried in  *)
(*    payload.todos.                                                        *)
(*  - new Date() and crypto.randomUUID() are read from env, which the       *)
(*    session fills from its clock and its count of ids handed out.         *)
(***************************************************************************)
EXTENDS Integers, Sequences, FiniteSets, TLC

VARIABLES
    history,       \* state.history of the wrapper: a sequence of forests
    historyIndex,  \* state.historyIndex, 0-based as in the code
    nextId,        \* number of ids crypto.randomUUID() has handed out
    clock,         \* half-days elapsed since the start of the session
    status,        \* "ok", or how the last dispatch failed to return
    lastAction,    \* observer: the action of the last dispatch
    run,           \* observer: forests S0..Sn of an undo-free run of
                   \* state-changing actions, <<>> once the run is broken
    undone,        \* observer: number of UNDOs dispatched after that run
    probe,         \* a call of a helper function on its own: its arguments
    result,        \* what that call returned
    localTodos,    \* the item 'localTodos' of localStorage, as the JSON value
                   \* its text denotes
    persist,       \* the persistence effect: "pending" after a render with
                   \* a new present, then "written", or "failed" when
                   \* setItem threw
    timer,         \* half-hours the interval of the notification effect has
                   \* run since it was set
    unchecked,     \* observer: half-hours of running time since the last
                   \* due-soon check, or since the start
    scanned,       \* observer: the forest the last due-soon check went through
    effectTodos    \* the todos in the closure of the interval callback: those
                   \* of the render whose notification effect set the interval

vars == <<history, historyIndex, nextId, clock, status, lastAction, run, undone,
          probe, result, localTodos, persist, timer, unchecked, scanned, effectTodos>>

---------------------------------------------------------------------------
(* Bounds of the model *)

MaxTasks == 2         \* ids generated in a session
MaxHistory == 2       \* longest history explored with every action at hand
MaxDeepHistory == 4   \* longest history explored from an empty store with
                      \* root-level actions only
MaxTicks == 1         \* half-days the clock may advance
MaxNodes == 3         \* tasks of a forest drawn as an input
MaxUnchecked == 4     \* half-hours followed without a due-soon check
MaxPeriods == 12      \* months looked through for the next occurrence

---------------------------------------------------------------------------
(* JavaScript values *)

JsNull == [k |-> "null", v |-> 0]
JsUndefined == [k |-> "undefined", v |-> 0]
JsEmpty == [k |-> "empty", v |-> 0]
JsDate(n) == [k |-> "date", v |-> n]

\* truthiness of a date-valued field: only a non-empty string is truthy
Truthy(x) == x.k = "date"

\* obj.key, undefined when the object has no such key
Get(obj, key) == IF key \in DOMAIN obj THEN obj[key] ELSE JsUndefined

\* { ...a, ...b }
Spread(a, b) ==
    [key \in DOMAIN a \cup DOMAIN b |-> IF key \in DOMAIN b THEN b[key] ELSE a[key]]

\* the element a destructuring of an empty array binds
UndefinedItem == [undefined |-> TRUE]

Max(a, b) == IF a > b THEN a ELSE b
Min(a, b) == IF a < b THEN a ELSE b

\* array.map(fn) and array.filter(test) over a sequence, by index
RECURSIVE FilterSeq(_, _)
FilterSeq(s, keep) ==
    IF s = <<>> THEN <<>>
    ELSE (IF Head(s) \in keep THEN <<Head(s)>> ELSE <<>>) \o FilterSeq(Tail(s), keep)

---------------------------------------------------------------------------
(* Calendar: Date arithmetic as done by setDate / setMonth, in UTC *)

IsLeap(y) == (y % 4 = 0 /\ y % 100 # 0) \/ y % 400 = 0

DaysInMonth(y, m) ==
    IF m = 2 THEN (IF IsLeap(y) THEN 29 ELSE 28)
    ELSE IF m \in {4, 6, 9, 11} THEN 30 ELSE 31

YearOf(n) == n \div 10000
MonthOf(n) == (n \div 100) % 100
DayOf(n) == n % 100

\* Date rolls a day past the end of its month over into the next month;
\* the day exceeds the month by less than a month here
RollDay(y, m, d) ==
    IF d <= DaysInMonth(y, m) THEN y * 10000 + m * 100 + d
    ELSE IF m = 12 THEN (y + 1) * 10000 + 100 + (d - DaysInMonth(y, m))
    ELSE y * 10000 + (m + 1) * 100 + (d - DaysInMonth(y, m))

\* and month 13 over into January of the next year
Normalise(y, m, d) == IF m > 12 THEN RollDay(y + 1, m - 12, d) ELSE RollDay(y, m, d)

\* date.setDate(date.getDate() + n)
AddDays(n, days) == Normalise(YearOf(n), MonthOf(n), DayOf(n) + days)

\* date.setMonth(date.getMonth() + 1)
AddMonth(n) == Normalise(YearOf(n), MonthOf(n) + 1, DayOf(n))

\* new Date(): the session starts at 2024-01-30T00:00Z; half = 1 is midday
Now(c) == [date |-> AddDays(20240130, c \div 2), half |-> c % 2]

\* date < now, date being midnight UTC of day n
Before(n, now) == n < now.date \/ (n = now.date /\ now.half > 0)

---------------------------------------------------------------------------
(* Recurrence calculator *)

Diverges == [k |-> "diverges", v |-> 0]

\* the while loop of getNextRecurrenceDate.  A recurrence that is none of
\* daily / weekly / monthly never advances the date, so the loop never ends.
\* one pass of the loop body
Advance(n, recurrence) ==
    IF recurrence = "daily" THEN AddDays(n, 1)
    ELSE IF recurrence = "weekly" THEN AddDays(n, 7)
    ELSE IF recurrence = "monthly" THEN AddMonth(n)
    ELSE n

RECURSIVE AdvanceUntilNow(_, _, _)
AdvanceUntilNow(n, recurrence, now) ==
    IF ~Before(n, now) THEN JsDate(n)
    ELSE IF Advance(n, recurrence) = n THEN Diverges
    ELSE AdvanceUntilNow(Advance(n, recurrence), recurrence, now)

\* recurrence is a string, "" when the select shows "No Recurrence"
getNextRecurrenceDate(startDate, recurrence, now) ==
    IF ~Truthy(startDate) \/ recurrence = "" THEN JsNull
    ELSE AdvanceUntilNow(startDate.v, recurrence, now)

---------------------------------------------------------------------------
(* Tree helpers *)

\* task.subtasks as the argument of a call: an array or undefined
Arr(seq) == [k |-> "array", v |-> seq]
SubtasksOf(task) == IF "subtasks" \in DOMAIN task THEN Arr(task.subtasks) ELSE JsUndefined

\* task.recurrence is truthy
RecurrenceSet(task) == "recurrence" \in DOMAIN task /\ task.recurrence # ""

\* a variant that sets the flag on the tasks it is given and no deeper
toggleAllNestedTasksOneLevel(tasks, completedStatus) ==
    IF tasks.k # "array" THEN <<>>
    ELSE [i \in 1..Len(tasks.v) |->
            Spread(tasks.v[i],
                   [completed |-> completedStatus,
                    subtasks |-> IF "subtasks" \in DOMAIN tasks.v[i]
                                 THEN tasks.v[i].subtasks ELSE <<>>])]

RECURSIVE toggleAllNestedTasks(_, _)
toggleAllNestedTasks(tasks, completedStatus) ==
    IF tasks.k # "array" THEN <<>>
    ELSE [i \in 1..Len(tasks.v) |->
            Spread(tasks.v[i],
                   [completed |-> completedStatus,
                    subtasks |-> toggleAllNestedTasks(SubtasksOf(tasks.v[i]), completedStatus)])]

\* a variant that recomputes the dates whenever the task has a recurrence,
\* also when it becomes active
ToggleTodoBodyAlwaysAdvancing(todo, now) ==
    Spread(todo,
           [completed |-> ~todo.completed,
            subtasks |-> toggleAllNestedTasks(SubtasksOf(todo), ~todo.completed),
            dueDate |-> IF RecurrenceSet(todo)
                        THEN getNextRecurrenceDate(Get(todo, "dueDate"), todo.recurrence, now)
                        ELSE Get(todo, "dueDate"),
            startDate |-> IF RecurrenceSet(todo)
                          THEN getNextRecurrenceDate(Get(todo, "startDate"), todo.recurrence, now)
                          ELSE Get(todo, "startDate")])

\* the body shared by the TOGGLE_TODO map callback and the TOGGLE_NESTED_TASK
\* update function
ToggleTodoBody(todo, now) ==
    LET newCompletedState == ~todo.completed
        recurs == newCompletedState /\ RecurrenceSet(todo)
        newDueDate == IF recurs
                      THEN getNextRecurrenceDate(Get(todo, "dueDate"), todo.recurrence, now)
                      ELSE Get(todo, "dueDate")
        newStartDate == IF recurs
                        THEN getNextRecurrenceDate(Get(todo, "startDate"), todo.recurrence, now)
                        ELSE Get(todo, "startDate")
        updatedSubtasks == toggleAllNestedTasks(SubtasksOf(todo), newCompletedState)
    IN  Spread(todo, [completed |-> newCompletedState, subtasks |-> updatedSubtasks,
                      dueDate |-> newDueDate, startDate |-> newStartDate])

ToggleNestedBody(task, now) ==
    LET newCompletedState == ~task.completed
        recurs == newCompletedState /\ RecurrenceSet(task)
        newDueDate == IF recurs
                      THEN getNextRecurrenceDate(Get(task, "dueDate"), task.recurrence, now)
                      ELSE Get(task, "dueDate")
        newStartDate == IF recurs
                        THEN getNextRecurrenceDate(Get(task, "startDate"), task.recurrence, now)
                        ELSE Get(task, "startDate")
        updatedSubtasks == toggleAllNestedTasks(SubtasksOf(task), newCompletedState)
    IN  Spread(task, [completed |-> newCompletedState, subtasks |-> updatedSubtasks,
                      dueDate |-> newDueDate, startDate |-> newStartDate])

\* the update functions the reducer hands to findTaskAndUpdate, as data:
\*   "addSubtask"  parentTask => ({...parentTask, subtasks: [newSubtask, ...]})
\*   "toggle"      the TOGGLE_NESTED_TASK callback
\*   "deleteChild" parentTask => ({...parentTask, subtasks: filter(id !== targetId)})
\*   "merge"       task => ({...task, ...updates})
\*   "identity"    task => task
\* a variant whose "deleteChild" empties the parent's subtasks
ApplyUpdateDroppingSiblings(f, task) ==
    IF f.kind = "addSubtask"
    THEN Spread(task, [subtasks |-> <<f.arg>> \o task.subtasks])
    ELSE IF f.kind = "toggle" THEN ToggleNestedBody(task, f.arg)
    ELSE IF f.kind = "deleteChild" THEN Spread(task, [subtasks |-> <<>>])
    ELSE IF f.kind = "merge" THEN Spread(task, f.arg)
    ELSE task

\* a variant that puts a new subtask behind the subtasks of its parent
ApplyUpdateAppending(f, task) ==
    IF f.kind = "addSubtask"
    THEN Spread(task, [subtasks |-> Append(task.subtasks, f.arg)])
    ELSE IF f.kind = "toggle" THEN ToggleNestedBody(task, f.arg)
    ELSE IF f.kind = "deleteChild"
    THEN Spread(task, [subtasks |->
             FilterSeq(task.subtasks, {t \in {task.subtasks[i] : i \in 1..Len(task.subtasks)} : t.id # f.arg})])
    ELSE IF f.kind = "merge" THEN Spread(task, f.arg)
    ELSE task

ApplyUpdate(f, task) ==
    IF f.kind = "addSubtask"
    THEN Spread(task, [subtasks |-> <<f.arg>> \o task.subtasks])
    ELSE IF f.kind = "toggle" THEN ToggleNestedBody(task, f.arg)
    ELSE IF f.kind = "deleteChild"
    THEN Spread(task, [subtasks |->
             FilterSeq(task.subtasks, {t \in {task.subtasks[i] : i \in 1..Len(task.subtasks)} : t.id # f.arg})])
    ELSE IF f.kind = "merge" THEN Spread(task, f.arg)
    ELSE task

\* a variant that, at the last component, updates every task of the level
RECURSIVE findTaskAndUpdateAnyId(_, _, _)
findTaskAndUpdateAnyId(tasks, idPath, updateFunction) ==
    IF Len(idPath) = 1
    THEN [i \in 1..Len(tasks) |-> ApplyUpdate(updateFunction, tasks[i])]
    ELSE IF idPath = <<>>
    THEN tasks
    ELSE [i \in 1..Len(tasks) |->
            IF tasks[i].id = Head(idPath)
            THEN Spread(tasks[i],
                        [subtasks |-> findTaskAndUpdateAnyId(tasks[i].subtasks, Tail(idPath),
                                                             updateFunction)])
            ELSE tasks[i]]

\* a variant that marks a task on the path completed when, after the
\* update, all its subtasks are
RECURSIVE findTaskAndUpdateCompletingParents(_, _, _)
findTaskAndUpdateCompletingParents(tasks, idPath, updateFunction) ==
    IF Len(idPath) = 1
    THEN [i \in 1..Len(tasks) |->
            IF tasks[i].id = idPath[1] THEN ApplyUpdate(updateFunction, tasks[i]) ELSE tasks[i]]
    ELSE IF idPath = <<>>
    THEN tasks
    ELSE [i \in 1..Len(tasks) |->
            IF tasks[i].id = Head(idPath)
            THEN LET updatedSubtasks ==
                         findTaskAndUpdateCompletingParents(tasks[i].subtasks, Tail(idPath),
                                                            updateFunction)
                 IN  Spread(tasks[i],
                            [subtasks |-> updatedSubtasks,
                             completed |-> \/ tasks[i].completed
                                           \/ /\ updatedSubtasks # <<>>
                                              /\ \A j \in 1..Len(updatedSubtasks) :
                                                    updatedSubtasks[j].completed])
            ELSE tasks[i]]

\* a variant that does not descend: a longer path updates nothing
findTaskAndUpdateRootsOnly(tasks, idPath, updateFunction) ==
    IF Len(idPath) = 1
    THEN [i \in 1..Len(tasks) |->
            IF tasks[i].id = idPath[1] THEN ApplyUpdate(updateFunction, tasks[i]) ELSE tasks[i]]
    ELSE tasks

RECURSIVE findTaskAndUpdate(_, _, _)
findTaskAndUpdate(tasks, idPath, updateFunction) ==
    IF Len(idPath) = 1
    THEN [i \in 1..Len(tasks) |->
            IF tasks[i].id = idPath[1] THEN ApplyUpdate(updateFunction, tasks[i]) ELSE tasks[i]]
    ELSE IF idPath = <<>>
    THEN tasks      \* currentId is undefined and matches no task: a copy
    ELSE LET currentId == Head(idPath)
             restOfPath == Tail(idPath)
         IN  [i \in 1..Len(tasks) |->
                IF tasks[i].id = currentId
                THEN Spread(tasks[i],
                            [subtasks |-> findTaskAndUpdate(tasks[i].subtasks, restOfPath, updateFunction)])
                ELSE tasks[i]]

\* the update function throws a TypeError: it spreads or filters the
\* subtasks of a task that has none
ApplyUpdateThrows(f, task) ==
    f.kind \in {"addSubtask", "deleteChild"} /\ "subtasks" \notin DOMAIN task

\* findTaskAndUpdate throws a TypeError: it is handed the subtasks of a
\* matched task that has none (undefined.map), or the update function throws
RECURSIVE findTaskAndUpdateThrows(_, _, _)
findTaskAndUpdateThrows(tasks, idPath, updateFunction) ==
    IF idPath = <<>> THEN FALSE
    ELSE \E i \in 1..Len(tasks) :
            /\ tasks[i].id = idPath[1]
            /\ IF Len(idPath) = 1 THEN ApplyUpdateThrows(updateFunction, tasks[i])
               ELSE \/ "subtasks" \notin DOMAIN tasks[i]
                    \/ findTaskAndUpdateThrows(tasks[i].subtasks, Tail(idPath), updateFunction)

\* a date field of some task holds the mark of a loop that never ended
RECURSIVE AnyDiverges(_)
AnyDiverges(tasks) ==
    \E i \in 1..Len(tasks) :
        \/ Get(tasks[i], "dueDate") = Diverges
        \/ Get(tasks[i], "startDate") = Diverges
        \/ ("subtasks" \in DOMAIN tasks[i] /\ AnyDiverges(tasks[i].subtasks))

---------------------------------------------------------------------------
(* Task tree reducer *)

\* what a call of the reducer comes to: it returns `value`, which is its
\* argument itself (ref = "state") or a new array (ref = "fresh"), or it
\* never returns
Fresh(value) == [outcome |-> "returned", value |-> value, ref |-> "fresh"]
Same(value) == [outcome |-> "returned", value |-> value, ref |-> "state"]
Hangs == [outcome |-> "hangs", value |-> <<>>, ref |-> "fresh"]
Throws == [outcome |-> "throws", value |-> <<>>, ref |-> "fresh"]
FreshUnlessDiverged(value) == IF AnyDiverges(value) THEN Hangs ELSE Fresh(value)

\* state.findIndex(t => t.id === id), 0-based, -1 when there is none
findIndex(state, id) ==
    IF \E i \in 1..Len(state) : state[i].id = id
    THEN (CHOOSE i \in 1..Len(state) :
              state[i].id = id /\ \A j \in 1..(i - 1) : state[j].id # id) - 1
    ELSE -1

\* the index array.splice(start, ...) starts at
SpliceStart(len, start) == IF start < 0 THEN Max(len + start, 0) ELSE Min(start, len)

\* a variant that makes the dragged and the dropped-on task change places
ReorderTodosSwapping(state, dragId, dropId) ==
    IF findIndex(state, dragId) = -1 \/ findIndex(state, dropId) = -1 THEN state
    ELSE [i \in 1..Len(state) |->
            IF i = findIndex(state, dragId) + 1 THEN state[findIndex(state, dropId) + 1]
            ELSE IF i = findIndex(state, dropId) + 1 THEN state[findIndex(state, dragId) + 1]
            ELSE state[i]]

ReorderTodos(state, dragId, dropId) ==
    LET dragIndex == findIndex(state, dragId)
        dropIndex == findIndex(state, dropId)
        from == SpliceStart(Len(state), dragIndex)
        removed == IF from < Len(state) THEN <<state[from + 1]>> ELSE <<>>
        rest == SubSeq(state, 1, from) \o SubSeq(state, from + 2, Len(state))
        draggedTodo == IF removed = <<>> THEN UndefinedItem ELSE removed[1]
        to == SpliceStart(Len(rest), dropIndex)
    IN  SubSeq(rest, 1, to) \o <<draggedTodo>> \o SubSeq(rest, to + 1, Len(rest))

\* a variant that filters the tasks it is given and no deeper
clearNestedCompletedOneLevel(tasks) ==
    FilterSeq(tasks, {t \in {tasks[i] : i \in 1..Len(tasks)} : ~t.completed})

RECURSIVE clearNestedCompleted(_)
clearNestedCompleted(tasks) ==
    LET kept == FilterSeq(tasks, {t \in {tasks[i] : i \in 1..Len(tasks)} : ~t.completed})
    IN  [i \in 1..Len(kept) |->
            Spread(kept[i], [subtasks |-> clearNestedCompleted(kept[i].subtasks)])]

\* clearing throws a TypeError: a task that is kept has no subtasks
\* (undefined.filter)
RECURSIVE ClearCompletedThrows(_)
ClearCompletedThrows(tasks) ==
    \E i \in 1..Len(tasks) :
        /\ ~tasks[i].completed
        /\ \/ "subtasks" \notin DOMAIN tasks[i]
           \/ ClearCompletedThrows(tasks[i].subtasks)

\* the result of an action that goes through findTaskAndUpdate
UpdateAtPath(state, idPath, updateFunction) ==
    IF findTaskAndUpdateThrows(state, idPath, updateFunction) THEN Throws
    ELSE FreshUnlessDiverged(findTaskAndUpdate(state, idPath, updateFunction))

RECURSIVE Concat(_)
Concat(seqs) == IF seqs = <<>> THEN <<>> ELSE Head(seqs) \o Concat(Tail(seqs))

\* a variant that puts what is left of a completed root's subtasks in its place
ClearCompletedPromoting(state) ==
    Concat([i \in 1..Len(state) |->
              IF state[i].completed
              THEN clearNestedCompleted(state[i].subtasks)
              ELSE << Spread(state[i], [subtasks |-> clearNestedCompleted(state[i].subtasks)]) >>])

ClearCompleted(state) ==
    LET newTodos == FilterSeq(state, {t \in {state[i] : i \in 1..Len(state)} : ~t.completed})
    IN  [i \in 1..Len(newTodos) |->
            Spread(newTodos[i], [subtasks |-> clearNestedCompleted(newTodos[i].subtasks)])]

\* a variant that takes over the tasks of the payload that have subtasks
ImportTodosWithSubtasks(state, payload) ==
    Fresh(FilterSeq(payload.todos,
                    { t \in { payload.todos[i] : i \in 1..Len(payload.todos) } :
                        "subtasks" \in DOMAIN t }))

\* case 'IMPORT_TODOS': return action.payload, the array JSON.parse has
\* just built
ImportTodos(state, payload) == Fresh(payload.todos)

\* a variant of the new root that keeps the startDate and the recurrence of
\* the payload, as the new subtask does
NewTodoWithRecurrence(p, env) ==
    [id |-> env.uuid, text |-> p.text, completed |-> FALSE, createdAt |-> env.now,
     dueDate |-> IF Truthy(p.dueDate) THEN p.dueDate ELSE JsNull,
     startDate |-> p.startDate, recurrence |-> p.recurrence,
     subtasks |-> <<>>]

\* the object literal newTodo of ADD_TODO: startDate and recurrence are
\* destructured from the payload and not used
NewTodo(p, env) ==
    [id |-> env.uuid, text |-> p.text, completed |-> FALSE, createdAt |-> env.now,
     dueDate |-> IF Truthy(p.dueDate) THEN p.dueDate ELSE JsNull,
     subtasks |-> <<>>]

\* env.now is what new Date() gives, env.uuid what crypto.randomUUID() gives
todoReducer(state, action, env) ==
    LET p == action.payload IN
    CASE action.type = "ADD_TODO" ->
            LET newTodo == NewTodo(p, env)
            IN  Fresh(<<newTodo>> \o state)
      [] action.type = "ADD_NESTED_TASK" ->
            LET newSubtask == [id |-> env.uuid, text |-> p.text, completed |-> FALSE,
                               createdAt |-> env.now, dueDate |-> p.dueDate,
                               startDate |-> p.startDate, recurrence |-> p.recurrence,
                               subtasks |-> <<>>]
            IN  UpdateAtPath(state, p.idPath, [kind |-> "addSubtask", arg |-> newSubtask])
      [] action.type = "TOGGLE_TODO" ->
            FreshUnlessDiverged([i \in 1..Len(state) |->
                IF state[i].id = p.id THEN ToggleTodoBody(state[i], env.now) ELSE state[i]])
      [] action.type = "TOGGLE_NESTED_TASK" ->
            UpdateAtPath(state, p.idPath, [kind |-> "toggle", arg |-> env.now])
      [] action.type = "DELETE_TODO" ->
            Fresh(FilterSeq(state, {t \in {state[i] : i \in 1..Len(state)} : t.id # p.id}))
      [] action.type = "DELETE_NESTED_TASK" ->
            LET parentPath == SubSeq(p.idPath, 1, Len(p.idPath) - 1)
                targetId == p.idPath[Len(p.idPath)]
            IN  IF Len(parentPath) = 0
                THEN Fresh(FilterSeq(state, {t \in {state[i] : i \in 1..Len(state)} : t.id # targetId}))
                ELSE UpdateAtPath(state, parentPath, [kind |-> "deleteChild", arg |-> targetId])
      [] action.type = "UPDATE_TODO" ->
            Fresh([i \in 1..Len(state) |->
                IF state[i].id = p.id THEN Spread(state[i], p.updates) ELSE state[i]])
      [] action.type = "UPDATE_NESTED_TASK" ->
            UpdateAtPath(state, p.idPath, [kind |-> "merge", arg |-> p.updates])
      [] action.type = "REORDER_TODOS" ->
            Fresh(ReorderTodos(state, p.dragId, p.dropId))
      [] action.type = "CLEAR_COMPLETED" ->
            IF ClearCompletedThrows(state) THEN Throws ELSE Fresh(ClearCompleted(state))
      [] action.type = "IMPORT_TODOS" -> ImportTodos(state, p)
      [] OTHER -> Same(state)

---------------------------------------------------------------------------
(* History wrapper *)

\* Variants of the wrapper, each wrong in one place: a property of the
\* history must tell the wrapper from them.

\* appends without discarding the entries after historyIndex
RecordWithoutTruncation(state, newPresent) ==
    IF newPresent.outcome # "returned"
    THEN [outcome |-> newPresent.outcome, history |-> state.history,
          historyIndex |-> state.historyIndex]
    ELSE IF newPresent.ref = "state"
    THEN [outcome |-> "returned", history |-> state.history,
          historyIndex |-> state.historyIndex]
    ELSE [outcome |-> "returned",
          history |-> Append(state.history, newPresent.value),
          historyIndex |-> Len(state.history)]

\* a variant that records what the reducer came to also when that is the
\* state it was given
RecordEveryResult(state, newPresent) ==
    IF newPresent.outcome # "returned"
    THEN [outcome |-> newPresent.outcome, history |-> state.history,
          historyIndex |-> state.historyIndex]
    ELSE [outcome |-> "returned",
          history |-> Append(SubSeq(state.history, 1, state.historyIndex + 1), newPresent.value),
          historyIndex |-> Len(SubSeq(state.history, 1, state.historyIndex + 1))]

\* the wrapper from `if (newPresent === ...)` on: newPresent is what the
\* wrapped reducer came to
Record(state, newPresent) ==
    IF newPresent.outcome # "returned"
    THEN [outcome |-> newPresent.outcome, history |-> state.history,
          historyIndex |-> state.historyIndex]
    ELSE IF newPresent.ref = "state"
    THEN [outcome |-> "returned", history |-> state.history,
          historyIndex |-> state.historyIndex]
    ELSE [outcome |-> "returned",
          history |-> Append(SubSeq(state.history, 1, state.historyIndex + 1), newPresent.value),
          historyIndex |-> Len(SubSeq(state.history, 1, state.historyIndex + 1))]

\* REDO does not stop at the last entry
undoableUnclampedRedo(state, action, env) ==
    IF action.type = "UNDO"
    THEN [outcome |-> "returned", history |-> state.history,
          historyIndex |-> Max(0, state.historyIndex - 1)]
    ELSE IF action.type = "REDO"
    THEN [outcome |-> "returned", history |-> state.history,
          historyIndex |-> state.historyIndex + 1]
    ELSE Record(state, todoReducer(state.history[state.historyIndex + 1], action, env))

\* UNDO leaves the index where it is
undoableIdleUndo(state, action, env) ==
    IF action.type = "UNDO"
    THEN [outcome |-> "returned", history |-> state.history,
          historyIndex |-> state.historyIndex]
    ELSE IF action.type = "REDO"
    THEN [outcome |-> "returned", history |-> state.history,
          historyIndex |-> Min(Len(state.history) - 1, state.historyIndex + 1)]
    ELSE Record(state, todoReducer(state.history[state.historyIndex + 1], action, env))

\* UNDO goes back to the first entry
undoableRewind(state, action, env) ==
    IF action.type = "UNDO"
    THEN [outcome |-> "returned", history |-> state.history, historyIndex |-> 0]
    ELSE IF action.type = "REDO"
    THEN [outcome |-> "returned", history |-> state.history,
          historyIndex |-> Min(Len(state.history) - 1, state.historyIndex + 1)]
    ELSE Record(state, todoReducer(state.history[state.historyIndex + 1], action, env))

\* state is {history, historyIndex}; the result is the next wrapper state,
\* with `outcome` telling whether the wrapped reducer returned
undoable(state, action, env) ==
    IF action.type = "UNDO"
    THEN [outcome |-> "returned", history |-> state.history,
          historyIndex |-> Max(0, state.historyIndex - 1)]
    ELSE IF action.type = "REDO"
    THEN [outcome |-> "returned", history |-> state.history,
          historyIndex |-> Min(Len(state.history) - 1, state.historyIndex + 1)]
    ELSE Record(state, todoReducer(state.history[state.historyIndex + 1], action, env))

\* const present = state.history[state.historyIndex]
present == history[historyIndex + 1]
canUndo == historyIndex > 0
canRedo == historyIndex < Len(history) - 1

---------------------------------------------------------------------------
(* The inputs of a session *)

\* what the add form submits (SubtaskForm.handleAdd): a monthly task whose
\* due date has passed
TaskForms ==
    { [text |-> "a", dueDate |-> JsDate(20231231), startDate |-> JsEmpty, recurrence |-> "monthly"] }

\* what an edit submits (handleEdit): { text: editText }
Edits == { [text |-> "b"] }

\* updates objects the reducer accepts and no handler builds: they name the
\* keys id and subtasks
UncheckedEdits == { [id |-> 3], [subtasks |-> <<>>] }

\* ids that name no task: a stale id, a foreign drag
StaleIds == {0}

\* tasks as ADD_TODO and ADD_NESTED_TASK leave them in a stored snapshot
StoredRoot(id, completed, subtasks) ==
    [id |-> id, text |-> "a", completed |-> completed, createdAt |-> Now(0),
     dueDate |-> JsNull, subtasks |-> subtasks]
StoredNested(id, completed, recurrence, subtasks) ==
    [id |-> id, text |-> "a", completed |-> completed, createdAt |-> Now(0),
     dueDate |-> IF recurrence = "" THEN JsEmpty ELSE JsDate(20240130),
     startDate |-> JsEmpty, recurrence |-> recurrence, subtasks |-> subtasks]

\* R [A [A1]] with R completed over an active A
CompletedOverActive ==
    << StoredRoot(11, TRUE,
                  << StoredNested(12, FALSE, "", << StoredNested(13, TRUE, "", <<>>) >>) >>) >>
\* R [A [A1]] with A completed over an active A1, which recurs daily and
\* is due on the first day
NestedCompletedOverActive ==
    << StoredRoot(11, FALSE,
                  << StoredNested(12, TRUE, "", << StoredNested(13, FALSE, "daily", <<>>) >>) >>) >>

\* what getInitialState finds in local storage
StoredForests == { <<>>, CompletedOverActive, NestedCompletedOverActive }

\* the arrays an imported file parses to
ImportedForests == { << StoredRoot(21, TRUE, <<>>), StoredRoot(22, FALSE, <<>>) >> }

\* an array that is not a forest of the data model: two roots share an id,
\* and the first has no subtasks, was due in the past and has the
\* recurrence "none"
UncheckedForests ==
    { << [id |-> 21, text |-> "a", completed |-> FALSE, dueDate |-> JsDate(20231231),
          recurrence |-> "none"],
         StoredRoot(21, FALSE, <<>>) >> }

RECURSIVE PathsOf(_)
PathsOf(tasks) ==
    UNION { {<<tasks[i].id>>}
            \cup { <<tasks[i].id>> \o q :
                     q \in (IF "subtasks" \in DOMAIN tasks[i]
                            THEN PathsOf(tasks[i].subtasks) ELSE {}) }
            : i \in 1..Len(tasks) }

RootIds(tasks) == { tasks[i].id : i \in 1..Len(tasks) }

\* the paths an item builds (currentIdPath), and the same with a last
\* component that resolves to nothing
StalePaths(tasks) ==
    { <<s>> : s \in StaleIds } \cup { <<r, s>> : r \in RootIds(tasks), s \in StaleIds }
AddressedPaths(tasks) == PathsOf(tasks) \cup StalePaths(tasks)
AddressedIds(tasks) == RootIds(tasks) \cup StaleIds

\* sizes[j + 1] holds the forests of j tasks, for j < k: the forests of k tasks
ForestsOfSize(labels, sizes, k) ==
    UNION { { <<Spread(l, [subtasks |-> sub])>> \o rest :
                l \in labels, sub \in sizes[j + 1], rest \in sizes[k - j] }
            : j \in 0..(k - 1) }

RECURSIVE ForestsBySize(_, _)
ForestsBySize(labels, n) ==
    IF n = 0 THEN << { <<>> } >>
    ELSE CHOOSE r \in { Append(sizes, ForestsOfSize(labels, sizes, n))
                        : sizes \in { ForestsBySize(labels, n - 1) } } : TRUE

\* the forests of at most n tasks whose tasks, subtasks apart, are among labels
ForestsUpTo(labels, n) ==
    UNION { sizes[k] : k \in 1..(n + 1), sizes \in { ForestsBySize(labels, n) } }

\* forests for the clearing and toggling of flags: ids may repeat
FlaggedForests ==
    ForestsUpTo({ [id |-> i, completed |-> b] : i \in {1, 2}, b \in BOOLEAN }, MaxNodes)

\* forests for the path-addressed update: ids may repeat
NamedForests ==
    ForestsUpTo({ [id |-> i, text |-> "a", completed |-> FALSE] : i \in {1, 2, 3} }, MaxNodes)

\* the paths tried on a forest: those that resolve, and ones that fail at
\* the first, at a middle or at the last component
PathsTried(tasks) ==
    PathsOf(tasks)
    \cup { <<i>> : i \in {0, 1, 2, 3} }
    \cup { q \o <<0>> : q \in PathsOf(tasks) }
    \cup { <<0>> \o q : q \in PathsOf(tasks) }
    \cup { q \o <<q[1]>> : q \in PathsOf(tasks) }

\* update functions handed to findTaskAndUpdate
UpdateFunctions ==
    { [kind |-> "identity"],
      [kind |-> "merge", arg |-> [text |-> "b"]],
      [kind |-> "toggle", arg |-> Now(0)] }

---------------------------------------------------------------------------
(* The session *)

NoCall == [fn |-> "none"]

\* no due-soon check has run yet
NoCheck == [done |-> FALSE]

\* JSON.stringify(todos), as the JSON value of the text: a key whose value
\* is undefined is left out, an element that is undefined becomes null
RECURSIVE Stringify(_)
Stringify(tasks) ==
    [i \in 1..Len(tasks) |->
        IF tasks[i] = UndefinedItem THEN JsNull
        ELSE [key \in { k \in DOMAIN tasks[i] :
                          ~(k \in {"dueDate", "startDate"} /\ tasks[i][k] = JsUndefined) } |->
                 IF key = "subtasks" THEN Stringify(tasks[i].subtasks) ELSE tasks[i][key]]]

\* a variant of the dependency test under which the effect runs when the
\* history has changed its length
TodosChangedWithLength(state, next) == Len(next.history) # Len(state.history)

\* the dependency [todos] of the persistence effect: the render after a
\* dispatch has another array as present. Entries of the history are
\* pairwise different arrays, so that is when the index has moved
TodosChanged(state, next) == next.historyIndex # state.historyIndex

\* the state once the component has mounted over a store holding one of forests
Start(forests) ==
    /\ history \in { <<f>> : f \in forests }
    /\ historyIndex = 0
    /\ nextId = 0
    /\ clock = 0
    /\ status = "ok"
    /\ lastAction = [type |-> "INIT", payload |-> [id |-> 0]]
    /\ run = history
    /\ undone = 0
    /\ probe = NoCall
    /\ result = NoCall
    /\ localTodos = Stringify(history[1])
    /\ persist = "pending"
    /\ timer = 0
    /\ unchecked = 0
    /\ scanned = NoCheck
    /\ effectTodos = history[1]

Init == Start(StoredForests)

Env == [now |-> Now(clock), uuid |-> nextId + 1]

IsReducerAction(action) == action.type \notin {"UNDO", "REDO", "INIT"}

\* the observers after a dispatch that returned; r is what the reducer alone
\* makes of the present
Observe(action, r) ==
    IF action.type = "UNDO"
    THEN /\ run' = run
         /\ undone' = IF run = <<>> THEN 0 ELSE Min(undone + 1, Len(run))
    ELSE IF action.type = "REDO"
    THEN run' = <<>> /\ undone' = 0
    ELSE /\ undone' = 0
         /\ run' = IF run # <<>> /\ undone = 0 /\ r.value # present
                   THEN Append(run, r.value) ELSE <<>>

\* a variant of the notification effect with no dependencies: it runs after
\* the first render only, and the interval it set then is never replaced
NotificationEffectOnMount(changed) ==
    UNCHANGED <<timer, effectTodos>>

\* the notification effect has the dependency [todos]: after a render with
\* new todos its cleanup clears the interval and the effect sets a new one,
\* whose callback closes over those todos
NotificationEffect(changed) ==
    /\ timer' = IF changed THEN 0 ELSE timer
    /\ effectTodos' = IF ~changed THEN effectTodos
                      ELSE IF historyIndex' + 1 \in DOMAIN history'
                      THEN history'[historyIndex' + 1]
                      ELSE UndefinedItem   \* an index that names no entry

\* dispatch(action): the wrapper runs to completion, or the reducer hangs
Dispatch(action) ==
    /\ status = "ok"
    /\ \E next \in {undoable([history |-> history, historyIndex |-> historyIndex], action, Env)} :
           /\ history' = next.history
           /\ historyIndex' = next.historyIndex
           /\ status' = IF next.outcome = "returned" THEN "ok" ELSE next.outcome
           /\ lastAction' = action
           /\ IF next.outcome # "returned" THEN UNCHANGED <<run, undone>>
              ELSE \E r \in {IF IsReducerAction(action)
                              THEN todoReducer(present, action, Env)
                              ELSE Same(present)} : Observe(action, r)
           /\ persist' = IF /\ next.outcome = "returned"
                            /\ TodosChanged([history |-> history,
                                             historyIndex |-> historyIndex], next)
                         THEN "pending" ELSE persist
           /\ NotificationEffect(/\ next.outcome = "returned"
                                 /\ TodosChanged([history |-> history,
                                                  historyIndex |-> historyIndex], next))
    /\ UNCHANGED <<clock, probe, result, localTodos, unchecked, scanned>>

\* a dispatch that can lengthen the history is explored up to cap entries
Room(cap) == historyIndex + 1 < cap

AddTodo(cap) ==
    \E form \in TaskForms :
        /\ Room(cap) /\ nextId < MaxTasks
        /\ Dispatch([type |-> "ADD_TODO", payload |-> form])
        /\ nextId' = nextId + 1

AddNestedTask(cap) ==
    \E form \in TaskForms, idPath \in AddressedPaths(present) :
        /\ Room(cap) /\ nextId < MaxTasks
        /\ Dispatch([type |-> "ADD_NESTED_TASK",
                     payload |-> Spread(form, [idPath |-> idPath])])
        /\ nextId' = nextId + 1

ToggleTodo(cap) ==
    \E id \in AddressedIds(present) :
        /\ Room(cap)
        /\ Dispatch([type |-> "TOGGLE_TODO", payload |-> [id |-> id]])
        /\ UNCHANGED nextId

ToggleNestedTask(cap) ==
    \E idPath \in AddressedPaths(present) :
        /\ Room(cap)
        /\ Dispatch([type |-> "TOGGLE_NESTED_TASK", payload |-> [idPath |-> idPath]])
        /\ UNCHANGED nextId

DeleteTodo(cap) ==
    \E id \in AddressedIds(present) :
        /\ Room(cap)
        /\ Dispatch([type |-> "DELETE_TODO", payload |-> [id |-> id]])
        /\ UNCHANGED nextId

DeleteNestedTask(cap) ==
    \E idPath \in AddressedPaths(present) :
        /\ Room(cap)
        /\ Dispatch([type |-> "DELETE_NESTED_TASK", payload |-> [idPath |-> idPath]])
        /\ UNCHANGED nextId

UpdateTodo(cap) ==
    \E id \in AddressedIds(present), updates \in Edits :
        /\ Room(cap)
        /\ Dispatch([type |-> "UPDATE_TODO", payload |-> [id |-> id, updates |-> updates]])
        /\ UNCHANGED nextId

UpdateNestedTask(cap) ==
    \E idPath \in AddressedPaths(present), updates \in Edits :
        /\ Room(cap)
        /\ Dispatch([type |-> "UPDATE_NESTED_TASK",
                     payload |-> [idPath |-> idPath, updates |-> updates]])
        /\ UNCHANGED nextId

\* UPDATE_TODO and UPDATE_NESTED_TASK with an updates object of any keys
UpdateUnchecked(cap) ==
    \E idPath \in PathsOf(present), updates \in UncheckedEdits :
        /\ Room(cap)
        /\ Dispatch(IF Len(idPath) = 1
                    THEN [type |-> "UPDATE_TODO",
                          payload |-> [id |-> idPath[1], updates |-> updates]]
                    ELSE [type |-> "UPDATE_NESTED_TASK",
                          payload |-> [idPath |-> idPath, updates |-> updates]])
        /\ UNCHANGED nextId

\* onDrop of a rendered root item: dropId is that item's id, dragId is what
\* the drag carries
Reorder(cap) ==
    \E dragId \in AddressedIds(present), dropId \in RootIds(present) :
        /\ Room(cap)
        /\ Dispatch([type |-> "REORDER_TODOS", payload |-> [dragId |-> dragId, dropId |-> dropId]])
        /\ UNCHANGED nextId

\* handleClearCompleted, on the confirmation of the modal
ClearCompletedConfirmed(cap) ==
    /\ Room(cap)
    /\ Dispatch([type |-> "CLEAR_COMPLETED", payload |-> [id |-> 0]])
    /\ UNCHANGED nextId

\* handleImport with a file that parses to an array
Import(cap) ==
    \E todos \in ImportedForests :
        /\ Room(cap)
        /\ Dispatch([type |-> "IMPORT_TODOS", payload |-> [todos |-> todos]])
        /\ UNCHANGED nextId

\* handleImport with a file that parses to an array of anything
ImportUnchecked(cap) ==
    \E todos \in UncheckedForests :
        /\ Room(cap)
        /\ Dispatch([type |-> "IMPORT_TODOS", payload |-> [todos |-> todos]])
        /\ UNCHANGED nextId

\* an action of a type the reducer has no case for
Unrecognized ==
    /\ Dispatch([type |-> "NOOP", payload |-> [id |-> 0]])
    /\ UNCHANGED nextId

\* handleUndo
Undo ==
    /\ Dispatch([type |-> "UNDO", payload |-> [id |-> 0]])
    /\ UNCHANGED nextId

\* handleRedo
Redo ==
    /\ Dispatch([type |-> "REDO", payload |-> [id |-> 0]])
    /\ UNCHANGED nextId

\* time passes
Tick ==
    /\ status = "ok"
    /\ clock < MaxTicks
    /\ clock' = clock + 1
    /\ UNCHANGED <<history, historyIndex, nextId, status, lastAction, run, undone,
                   probe, result, localTodos, persist, timer, unchecked, scanned, effectTodos>>

Next ==
    \/ AddTodo(MaxHistory) \/ AddNestedTask(MaxHistory)
    \/ ToggleTodo(MaxHistory) \/ ToggleNestedTask(MaxHistory)
    \/ DeleteTodo(MaxHistory) \/ DeleteNestedTask(MaxHistory)
    \/ UpdateTodo(MaxHistory) \/ UpdateNestedTask(MaxHistory)
    \/ Reorder(MaxHistory) \/ ClearCompletedConfirmed(MaxHistory) \/ Import(MaxHistory)
    \/ Unrecognized \/ Undo \/ Redo \/ Tick

\* a session of any actions, from whatever the store holds
Spec == Init /\ [][Next]_vars

InitDeep == Start({ <<>> })

NextDeep ==
    \/ AddTodo(MaxDeepHistory) \/ ToggleTodo(MaxDeepHistory)
    \/ DeleteTodo(MaxDeepHistory) \/ ClearCompletedConfirmed(MaxDeepHistory)
    \/ UpdateTodo(MaxDeepHistory) \/ Reorder(MaxDeepHistory) \/ Import(MaxDeepHistory)
    \/ Unrecognized \/ Undo \/ Redo

\* a longer session of root-level actions, from an empty store
SpecDeep == InitDeep /\ [][NextDeep]_vars

\* the persistence effect runs: setItem stores the text of the present
Persist ==
    /\ status = "ok"
    /\ persist = "pending"
    /\ localTodos' = Stringify(present)
    /\ persist' = "written"
    /\ UNCHANGED <<history, historyIndex, nextId, clock, status, lastAction, run, undone,
                   probe, result, timer, unchecked, scanned, effectTodos>>

\* a variant in which the failed write makes the session start over from an
\* empty forest
PersistFailsAndResets ==
    /\ status = "ok"
    /\ persist = "pending"
    /\ persist' = "failed"
    /\ history' = << <<>> >>
    /\ historyIndex' = 0
    /\ UNCHANGED <<nextId, clock, status, lastAction, run, undone,
                   probe, result, localTodos, timer, unchecked, scanned, effectTodos>>

\* the persistence effect runs and setItem throws: the error is logged and
\* the item stays what it was
PersistFails ==
    /\ status = "ok"
    /\ persist = "pending"
    /\ persist' = "failed"
    /\ UNCHANGED <<history, historyIndex, nextId, clock, status, lastAction, run, undone,
                   probe, result, localTodos, timer, unchecked, scanned, effectTodos>>

\* the effects of a render are run before the next event is handled
NextStore ==
    \/ persist # "pending" /\ AddTodo(MaxHistory)
    \/ persist # "pending" /\ ToggleTodo(MaxHistory)
    \/ persist # "pending" /\ DeleteTodo(MaxHistory)
    \/ persist # "pending" /\ Reorder(MaxHistory)
    \/ persist # "pending" /\ ClearCompletedConfirmed(MaxHistory)
    \/ persist # "pending" /\ Import(MaxHistory)
    \/ persist # "pending" /\ Undo
    \/ persist # "pending" /\ Redo
    \/ Persist
    \/ PersistFails

\* a session with its writes to localStorage
SpecStore == Init /\ [][NextStore]_vars

\* setInterval(..., 60 * 60 * 1000): the interval in half-hours
CheckPeriod == 2

\* half an hour of running time passes; a callback that is due runs first
Wait ==
    /\ status = "ok"
    /\ timer < CheckPeriod
    /\ unchecked < MaxUnchecked
    /\ timer' = timer + 1
    /\ unchecked' = unchecked + 1
    /\ UNCHANGED <<history, historyIndex, nextId, clock, status, lastAction, run, undone,
                   probe, result, localTodos, persist, scanned, effectTodos>>

\* the callback of the interval runs the due-soon check on the todos of
\* its closure, those of the render that set the interval; the interval
\* goes on
Check ==
    /\ status = "ok"
    /\ timer = CheckPeriod
    /\ timer' = 0
    /\ unchecked' = 0
    /\ scanned' = [done |-> TRUE, todos |-> effectTodos]
    /\ UNCHANGED <<history, historyIndex, nextId, clock, status, lastAction, run, undone,
                   probe, result, localTodos, persist, effectTodos>>

NextTimer ==
    \/ Wait
    \/ Check
    \/ timer < CheckPeriod /\ AddTodo(MaxHistory)
    \/ timer < CheckPeriod /\ ToggleTodo(MaxHistory)
    \/ timer < CheckPeriod /\ DeleteTodo(MaxHistory)
    \/ timer < CheckPeriod /\ Undo
    \/ timer < CheckPeriod /\ Redo

\* a session with the running time between its actions
SpecTimer == Init /\ [][NextTimer]_vars

NextImport ==
    \/ Import(MaxHistory + 1) \/ ImportUnchecked(MaxHistory + 1)
    \/ ToggleTodo(MaxHistory + 1) \/ ToggleNestedTask(MaxHistory + 1)
    \/ AddNestedTask(MaxHistory + 1) \/ DeleteNestedTask(MaxHistory + 1)
    \/ ClearCompletedConfirmed(MaxHistory + 1)
    \/ Undo \/ Redo

\* a session around imports: what is imported is then toggled, added to,
\* deleted from or cleared
SpecImport == Init /\ [][NextImport]_vars

InitFirst == Start(FlaggedForests \cup NamedForests)

NextFirst ==
    \/ historyIndex = 0 /\ ClearCompletedConfirmed(MaxHistory)
    \/ historyIndex = 0 /\ ToggleTodo(MaxHistory)
    \/ historyIndex = 0 /\ ToggleNestedTask(MaxHistory)
    \/ historyIndex = 0 /\ DeleteTodo(MaxHistory)
    \/ historyIndex = 0 /\ DeleteNestedTask(MaxHistory)
    \/ historyIndex = 0 /\ AddTodo(MaxHistory)
    \/ historyIndex = 0 /\ AddNestedTask(MaxHistory)
    \/ historyIndex = 0 /\ Reorder(MaxHistory)
    \/ historyIndex = 0 /\ UpdateUnchecked(MaxHistory)

\* the first action of a session, over any stored forest
SpecFirst == InitFirst /\ [][NextFirst]_vars

---------------------------------------------------------------------------
(* Helper functions called on their own *)

\* the text of a file or of a stored item: the JSON of a value, or a text
\* that JSON.parse rejects
JsonText(value) == [k |-> "json", v |-> value]
Malformed == [k |-> "malformed", v |-> <<>>]

\* parsed values that are no arrays
JsonObject == [k |-> "object", v |-> <<>>]
JsonNumber == [k |-> "number", v |-> <<>>]
JsonNull == [k |-> "null", v |-> <<>>]

\* JSON.parse(text)
JsonParse(text) ==
    IF text.k = "json" THEN [outcome |-> "returned", value |-> text.v]
    ELSE [outcome |-> "throws", value |-> JsonNull]

\* Array.isArray(value)
IsArray(value) == value.k = "array"

\* a variant that imports an empty array when the file holds no array
handleImportDefaulting(text) ==
    IF JsonParse(text).outcome = "returned" /\ IsArray(JsonParse(text).value)
    THEN << [type |-> "IMPORT_TODOS", payload |-> [todos |-> JsonParse(text).value.v]] >>
    ELSE << [type |-> "IMPORT_TODOS", payload |-> [todos |-> <<>>]] >>

\* reader.onload of handleImport on the text of the chosen file: the actions
\* it dispatches
handleImport(text) ==
    IF JsonParse(text).outcome = "throws" THEN <<>>
    ELSE IF IsArray(JsonParse(text).value)
    THEN << [type |-> "IMPORT_TODOS", payload |-> [todos |-> JsonParse(text).value.v]] >>
    ELSE <<>>

\* the texts of the files chosen for import
ImportTexts ==
    { JsonText(Arr(f)) : f \in ImportedForests \cup UncheckedForests }
    \cup { JsonText(JsonObject), JsonText(JsonNumber), JsonText(JsonNull), Malformed }

\* localStorage.getItem throws (storage denied)
Unreadable == [k |-> "unreadable", v |-> <<>>]

\* a variant that starts from the empty forest whatever is stored
getInitialStateEmpty(localData) == <<>>

\* getInitialState, localData being what getItem('localTodos') gives: null
\* when there is no item, else its text
getInitialState(localData) ==
    IF localData.k = "unreadable" THEN <<>>                   \* caught
    ELSE IF localData.k \in {"null", "empty"} THEN <<>>        \* falsy: []
    ELSE IF JsonParse(localData).outcome = "throws" THEN <<>> \* caught
    ELSE IF IsArray(JsonParse(localData).value) THEN JsonParse(localData).value.v
    ELSE <<>>

\* the wrapper state useReducer starts from
useUndoableReducer(initialPresent) == [history |-> <<initialPresent>>, historyIndex |-> 0]

\* what may be stored when the app starts: nothing, an empty text, a
\* snapshot written by an earlier session, other JSON, or no JSON at all
StoredItems ==
    { JsonText(Arr(Stringify(f))) : f \in StoredForests \cup UncheckedForests }
    \cup { JsNull, JsEmpty, Unreadable, Malformed,
           JsonText(JsonObject), JsonText(JsonNumber), JsonText(JsonNull) }

\* the arguments the recurrence calculator is called with, and the times of
\* the call: the end of a month, a day shortly before the session, a day
\* after it; a day in the middle of March
StartDates == { JsNull, JsUndefined, JsEmpty,
                JsDate(20231231), JsDate(20240125), JsDate(20240229) }
Recurrences == { "", "none", "daily", "weekly", "monthly" }
CallTimes == { Now(0), Now(1), [date |-> 20240315, half |-> 0] }

\* a task with or without a recurrence and dates, completed or not
DatedTasks ==
    { Spread(Spread([id |-> 1, text |-> "a", completed |-> c, subtasks |-> <<>>], r),
             Spread(d, sd)) :
        c \in BOOLEAN,
        r \in { [id |-> 1] } \cup { [recurrence |-> x] : x \in Recurrences },
        d \in { [id |-> 1], [dueDate |-> JsEmpty], [dueDate |-> JsDate(20231231)],
                [dueDate |-> JsDate(20240229)] },
        sd \in { [id |-> 1], [startDate |-> JsDate(20240125)] } }

\* the toggles of such a task: as a root by its id and by the path of one
\* id, and as a subtask by its path
ToggleCalls ==
    { [state |-> <<t>>, action |-> [type |-> "TOGGLE_TODO", payload |-> [id |-> 1]]] :
        t \in DatedTasks }
    \cup { [state |-> <<t>>,
            action |-> [type |-> "TOGGLE_NESTED_TASK", payload |-> [idPath |-> <<1>>]]] :
            t \in DatedTasks }
    \cup { [state |-> << StoredRoot(9, FALSE, <<t>>) >>,
            action |-> [type |-> "TOGGLE_NESTED_TASK", payload |-> [idPath |-> <<9, 1>>]]] :
            t \in DatedTasks }

\* the counters after tasks.forEach(countTasks): countTasks counts the task
\* it is given and, when it has subtasks, each of them in turn
RECURSIVE totalTasks(_)
totalTasks(tasks) ==
    IF tasks = <<>> THEN 0
    ELSE 1 + (IF "subtasks" \in DOMAIN Head(tasks) THEN totalTasks(Head(tasks).subtasks) ELSE 0)
           + totalTasks(Tail(tasks))

RECURSIVE completedTasks(_)
completedTasks(tasks) ==
    IF tasks = <<>> THEN 0
    ELSE (IF Head(tasks).completed THEN 1 ELSE 0)
         + (IF "subtasks" \in DOMAIN Head(tasks) THEN completedTasks(Head(tasks).subtasks) ELSE 0)
         + completedTasks(Tail(tasks))

\* Math.round(num / den) of two naturals: halves go up
MathRound(num, den) == (2 * num + den) \div (2 * den)

\* task.subtasks as getProgress takes it: undefined counts as no tasks
ProgressArgument(task) == IF "subtasks" \in DOMAIN task THEN task.subtasks ELSE <<>>

\* getProgress(task.subtasks) of NestedTaskItem
NestedTaskItemGetProgress(task) ==
    IF totalTasks(ProgressArgument(task)) = 0 THEN 0
    ELSE MathRound(100 * completedTasks(ProgressArgument(task)),
                   totalTasks(ProgressArgument(task)))

\* getProgress(todo.subtasks) of TodoItem
TodoItemGetProgress(todo) ==
    IF totalTasks(ProgressArgument(todo)) = 0 THEN (IF todo.completed THEN 100 ELSE 0)
    ELSE MathRound(100 * completedTasks(ProgressArgument(todo)),
                   totalTasks(ProgressArgument(todo)))

\* the tasks an item is rendered for: a task with up to MaxNodes - 1
\* descendants, and one without subtasks
ItemTasks ==
    { f[1] : f \in { g \in FlaggedForests \cup UncheckedForests : Len(g) >= 1 } }

\* the callbacks of the three filters of getKanbanColumns; new Date(dueDate)
\* is midnight UTC of the day
IsOverdueColumn(t, now) ==
    Truthy(Get(t, "dueDate")) /\ ~t.completed /\ Before(t.dueDate.v, now)
IsUpcomingColumn(t, now) ==
    Truthy(Get(t, "dueDate")) /\ ~t.completed /\ ~Before(t.dueDate.v, now)
IsCompletedColumn(t) == t.completed

\* todos.filter(keep), keep given as the set of the indices kept
FilterAt(todos, kept) ==
    LET F[i \in 0..Len(todos)] ==
            IF i = 0 THEN <<>>
            ELSE IF i \in kept THEN Append(F[i - 1], todos[i]) ELSE F[i - 1]
    IN  F[Len(todos)]

\* a variant whose overdue column does not look at the completed flag
getKanbanColumnsWithCompletedOverdue(todos, now) ==
    [overdue |-> FilterAt(todos, { i \in 1..Len(todos) :
                     Truthy(Get(todos[i], "dueDate")) /\ Before(todos[i].dueDate.v, now) }),
     upcoming |-> FilterAt(todos, { i \in 1..Len(todos) : IsUpcomingColumn(todos[i], now) }),
     completed |-> FilterAt(todos, { i \in 1..Len(todos) : IsCompletedColumn(todos[i]) })]

getKanbanColumns(todos, now) ==
    [overdue |-> FilterAt(todos, { i \in 1..Len(todos) : IsOverdueColumn(todos[i], now) }),
     upcoming |-> FilterAt(todos, { i \in 1..Len(todos) : IsUpcomingColumn(todos[i], now) }),
     completed |-> FilterAt(todos, { i \in 1..Len(todos) : IsCompletedColumn(todos[i]) })]

\* root tasks for the board: completed or not, without a due date, with an
\* empty one, due yesterday, today and tomorrow
BoardTasks ==
    { Spread([id |-> 1, text |-> "a", completed |-> c, subtasks |-> <<>>], d) :
        c \in BOOLEAN,
        d \in { [id |-> 1], [dueDate |-> JsNull], [dueDate |-> JsEmpty],
                [dueDate |-> JsDate(20240129)], [dueDate |-> JsDate(20240130)],
                [dueDate |-> JsDate(20240131)] } }

\* the forests of up to MaxTasks of them
BoardForests ==
    UNION { [1..n -> BoardTasks] : n \in 0..MaxTasks }

\* the root-level toggle, delete and update of an id, on forests whose ids
\* may repeat, on a task without subtasks and on dated tasks
RootCalls ==
    { [state |-> state, action |-> action] :
        state \in FlaggedForests \cup UncheckedForests \cup { <<t>> : t \in DatedTasks },
        action \in { [type |-> "TOGGLE_TODO", payload |-> [id |-> x]] : x \in {0, 1, 2, 21} }
                   \cup { [type |-> "DELETE_TODO", payload |-> [id |-> x]] : x \in {0, 1, 2, 21} }
                   \cup { [type |-> "UPDATE_TODO", payload |-> [id |-> x, updates |-> u]] :
                            x \in {0, 1, 2, 21}, u \in Edits \cup UncheckedEdits } }

\* the nested action that addresses the same id by a path of one component
NestedCounterpart(action) ==
    CASE action.type = "TOGGLE_TODO" ->
            [type |-> "TOGGLE_NESTED_TASK", payload |-> [idPath |-> <<action.payload.id>>]]
      [] action.type = "DELETE_TODO" ->
            [type |-> "DELETE_NESTED_TASK", payload |-> [idPath |-> <<action.payload.id>>]]
      [] action.type = "UPDATE_TODO" ->
            [type |-> "UPDATE_NESTED_TASK",
             payload |-> [idPath |-> <<action.payload.id>>, updates |-> action.payload.updates]]

\* REORDER_TODOS on any forest, the empty one included, with ids that name
\* a root, a subtask or nothing
ReorderCalls ==
    { [state |-> state,
       action |-> [type |-> "REORDER_TODOS", payload |-> [dragId |-> dragId, dropId |-> dropId]]] :
        state \in NamedForests, dragId \in {0, 1, 2, 3}, dropId \in {0, 1, 2, 3} }

\* what the form of SubtaskForm submits: any of its dates and recurrences
AddForms ==
    { [text |-> "a", dueDate |-> d, startDate |-> sd, recurrence |-> r] :
        d \in {JsEmpty, JsDate(20231231), JsDate(20240229)},
        sd \in {JsEmpty, JsDate(20240125)},
        r \in Recurrences }

\* ADD_TODO on a stored forest, and ADD_NESTED_TASK under each of its tasks
AddCalls ==
    { [state |-> state, action |-> [type |-> "ADD_TODO", payload |-> form]] :
        state \in StoredForests, form \in AddForms }
    \cup UNION { { [state |-> state,
                    action |-> [type |-> "ADD_NESTED_TASK",
                                payload |-> Spread(form, [idPath |-> idPath])]] :
                     form \in AddForms, idPath \in PathsOf(state) }
                 : state \in StoredForests }

InitCalls ==
    /\ \/ /\ history = << <<>> >>
          /\ \E call \in AddCalls :
                 probe = [fn |-> "todoReducer", state |-> call.state, action |-> call.action,
                          now |-> Now(0)]
       \/ /\ history = << <<>> >>
          /\ \E state \in StoredForests, form \in AddForms, now \in CallTimes :
                 probe = [fn |-> "addThenToggle", state |-> state, form |-> form, now |-> now]
       \/ /\ history = << <<>> >>
          /\ \E call \in ReorderCalls :
                 probe = [fn |-> "todoReducer", state |-> call.state, action |-> call.action,
                          now |-> Now(0)]
       \/ /\ history = << <<>> >>
          /\ \E todos \in BoardForests, c \in 0..1 :
                 probe = [fn |-> "getKanbanColumns", todos |-> todos, now |-> Now(c)]
       \/ /\ history = << <<>> >>
          /\ \E item \in {"NestedTaskItem", "TodoItem"}, task \in ItemTasks :
                 probe = [fn |-> "getProgress", item |-> item, task |-> task]
       \/ /\ history = << <<>> >>
          /\ \E call \in RootCalls :
                 probe = [fn |-> "rootAndNested", state |-> call.state, action |-> call.action,
                          now |-> CHOOSE now \in CallTimes : now.date = 20240315]
       \/ /\ history = << <<>> >>
          /\ \E call \in ToggleCalls, now \in CallTimes :
                 probe = [fn |-> "todoReducer", state |-> call.state, action |-> call.action,
                          now |-> now]
       \/ /\ history = << <<>> >>
          /\ \E startDate \in StartDates, recurrence \in Recurrences, now \in CallTimes :
                 probe = [fn |-> "getNextRecurrenceDate", startDate |-> startDate,
                          recurrence |-> recurrence, now |-> now]
       \/ /\ history = << <<>> >>
          /\ \E localData \in StoredItems :
                 probe = [fn |-> "getInitialState", localData |-> localData]
       \/ /\ history = << <<>> >>
          /\ \E tasks \in NamedForests, f \in UpdateFunctions :
                 \E idPath \in PathsTried(tasks) :
                     probe = [fn |-> "findTaskAndUpdate", tasks |-> tasks, idPath |-> idPath,
                              updateFunction |-> f]
       \/ /\ history \in { <<f>> : f \in StoredForests }
          /\ \E text \in ImportTexts :
                 probe = [fn |-> "handleImport", text |-> text]
    /\ historyIndex = 0
    /\ nextId = 0
    /\ clock = 0
    /\ status = "ok"
    /\ lastAction = [type |-> "INIT", payload |-> [id |-> 0]]
    /\ run = history
    /\ undone = 0
    /\ localTodos = Stringify(history[1])
    /\ persist = "pending"
    /\ timer = 0
    /\ unchecked = 0
    /\ scanned = NoCheck
    /\ effectTodos = history[1]
    /\ result = NoCall

CallFindTaskAndUpdate ==
    /\ probe.fn = "findTaskAndUpdate"
    /\ result = NoCall
    /\ result' = [fn |-> "findTaskAndUpdate",
                  value |-> findTaskAndUpdate(probe.tasks, probe.idPath, probe.updateFunction)]
    /\ UNCHANGED <<history, historyIndex, nextId, clock, status, lastAction, run, undone,
                   probe, localTodos, persist, timer, unchecked, scanned, effectTodos>>

\* the file chosen for import has been read: onload runs
CallHandleImport ==
    /\ probe.fn = "handleImport"
    /\ result = NoCall
    /\ \E actions \in { handleImport(probe.text) } :
           /\ result' = [fn |-> "handleImport", dispatched |-> actions,
                         before |-> [history |-> history, historyIndex |-> historyIndex]]
           /\ IF actions = <<>> THEN UNCHANGED <<history, historyIndex, status, persist>>
              ELSE \E next \in { undoable([history |-> history, historyIndex |-> historyIndex],
                                          actions[1], Env) } :
                       /\ history' = next.history
                       /\ historyIndex' = next.historyIndex
                       /\ status' = IF next.outcome = "returned" THEN "ok" ELSE next.outcome
                       /\ persist' = "pending"
    /\ UNCHANGED <<nextId, clock, lastAction, run, undone, probe, localTodos, timer,
                   unchecked, scanned, effectTodos>>

\* the App component mounts: useUndoableReducer(todoReducer, getInitialState())
CallGetInitialState ==
    /\ probe.fn = "getInitialState"
    /\ result = NoCall
    /\ \E initialPresent \in { getInitialState(probe.localData) } :
           /\ result' = [fn |-> "getInitialState", value |-> initialPresent]
           /\ history' = useUndoableReducer(initialPresent).history
           /\ historyIndex' = useUndoableReducer(initialPresent).historyIndex
    /\ UNCHANGED <<nextId, clock, status, lastAction, run, undone, probe, localTodos,
                   persist, timer, unchecked, scanned, effectTodos>>

CallGetNextRecurrenceDate ==
    /\ probe.fn = "getNextRecurrenceDate"
    /\ result = NoCall
    /\ result' = [fn |-> "getNextRecurrenceDate",
                  value |-> getNextRecurrenceDate(probe.startDate, probe.recurrence, probe.now)]
    /\ UNCHANGED <<history, historyIndex, nextId, clock, status, lastAction, run, undone,
                   probe, localTodos, persist, timer, unchecked, scanned, effectTodos>>

CallTodoReducer ==
    /\ probe.fn = "todoReducer"
    /\ result = NoCall
    /\ result' = [fn |-> "todoReducer",
                  value |-> todoReducer(probe.state, probe.action,
                                        [now |-> probe.now, uuid |-> 0])]
    /\ UNCHANGED <<history, historyIndex, nextId, clock, status, lastAction, run, undone,
                   probe, localTodos, persist, timer, unchecked, scanned, effectTodos>>

\* the reducer called on one forest with a root-level action and with its
\* nested counterpart
CallRootAndNested ==
    /\ probe.fn = "rootAndNested"
    /\ result = NoCall
    /\ result' = [fn |-> "rootAndNested",
                  root |-> todoReducer(probe.state, probe.action,
                                       [now |-> probe.now, uuid |-> 0]),
                  nested |-> todoReducer(probe.state, NestedCounterpart(probe.action),
                                         [now |-> probe.now, uuid |-> 0])]
    /\ UNCHANGED <<history, historyIndex, nextId, clock, status, lastAction, run, undone,
                   probe, localTodos, persist, timer, unchecked, scanned, effectTodos>>

\* the progress an item computes when it renders
CallGetProgress ==
    /\ probe.fn = "getProgress"
    /\ result = NoCall
    /\ result' = [fn |-> "getProgress",
                  value |-> IF probe.item = "NestedTaskItem"
                            THEN NestedTaskItemGetProgress(probe.task)
                            ELSE TodoItemGetProgress(probe.task)]
    /\ UNCHANGED <<history, historyIndex, nextId, clock, status, lastAction, run, undone,
                   probe, localTodos, persist, timer, unchecked, scanned, effectTodos>>

\* the columns of the board when it renders
CallGetKanbanColumns ==
    /\ probe.fn = "getKanbanColumns"
    /\ result = NoCall
    /\ result' = [fn |-> "getKanbanColumns", value |-> getKanbanColumns(probe.todos, probe.now)]
    /\ UNCHANGED <<history, historyIndex, nextId, clock, status, lastAction, run, undone,
                   probe, localTodos, persist, timer, unchecked, scanned, effectTodos>>

\* the reducer called with ADD_TODO, then with TOGGLE_TODO of the new id on
\* what it returned, and once more on what that returned
CallAddThenToggle ==
    /\ probe.fn = "addThenToggle"
    /\ result = NoCall
    /\ \E env \in { [now |-> probe.now, uuid |-> 0] } :
       \E toggle \in { [type |-> "TOGGLE_TODO", payload |-> [id |-> env.uuid]] } :
       \E added \in { todoReducer(probe.state,
                                   [type |-> "ADD_TODO", payload |-> probe.form], env) } :
       \E once \in { todoReducer(added.value, toggle, env) } :
           result' = [fn |-> "addThenToggle", added |-> added, once |-> once,
                      twice |-> todoReducer(once.value, toggle, env)]
    /\ UNCHANGED <<history, historyIndex, nextId, clock, status, lastAction, run, undone,
                   probe, localTodos, persist, timer, unchecked, scanned, effectTodos>>

NextCalls ==
    \/ CallFindTaskAndUpdate
    \/ CallAddThenToggle
    \/ CallGetKanbanColumns
    \/ CallGetProgress
    \/ CallRootAndNested
    \/ CallTodoReducer
    \/ CallGetNextRecurrenceDate
    \/ CallGetInitialState
    \/ CallHandleImport

SpecCalls == InitCalls /\ [][NextCalls]_vars

---------------------------------------------------------------------------
(* Properties of the undo/redo history *)

\* a step that dispatches an action to the wrapper, which returns
DispatchReturns == clock' = clock /\ status' = "ok"

\* C1: in every state reachable from {history: [initialPresent],
\* historyIndex: 0} by UNDO, REDO and reducer actions,
\* 0 <= historyIndex < length(history)
C1_HistoryIndexInRange == 0 <= historyIndex /\ historyIndex < Len(history)

\* an UNDO has brought the index of a history of several entries to 0
C1_UndoReachedFirstEntry ==
    lastAction.type = "UNDO" /\ historyIndex = 0 /\ Len(history) > 1

\* C2: a dispatch other than UNDO/REDO whose resulting forest is structurally
\* equal to the present forest leaves history and historyIndex unchanged
C2_EqualForestLeavesHistory ==
    [][ (/\ DispatchReturns
         /\ IsReducerAction(lastAction')
         /\ todoReducer(present, lastAction', Env).value = present)
        => (history' = history /\ historyIndex' = historyIndex) ]_vars

C3_TruncatedAndAppended(newPresent) ==
    /\ Len(history') = historyIndex + 2
    /\ \A i \in 1..(historyIndex + 1) : history'[i] = history[i]
    /\ history'[historyIndex + 2] = newPresent
    /\ historyIndex' = Len(history') - 1
    /\ ~canRedo'

\* C3: when an action other than UNDO/REDO produces a new present, the new
\* history is the old entries at positions 0..historyIndex, unchanged and in
\* order, followed by the new present; historyIndex is the last position and
\* REDO is not possible
C3_NewPresentTruncatesAndAppends ==
    [][ (/\ DispatchReturns
         /\ IsReducerAction(lastAction')
         /\ todoReducer(present, lastAction', Env).ref = "fresh")
        => C3_TruncatedAndAppended(todoReducer(present, lastAction', Env).value) ]_vars

\* two tasks have been added but the history holds two entries: the second
\* ADD_TODO came after an UNDO and discarded the entry of the first
C3_AddDiscardedUndoneEntry ==
    /\ lastAction.type = "ADD_TODO"
    /\ nextId = 2
    /\ Len(history) = 2
    /\ historyIndex = 1
    /\ Len(present) = 1

C5_UndoRedoMoveIndexOnly ==
    [][ /\ (clock' = clock /\ lastAction'.type = "UNDO") =>
               /\ historyIndex' = Max(0, historyIndex - 1)
               /\ history' = history
               /\ nextId' = nextId /\ status' = "ok"
               /\ historyIndex = 0 => present' = present
        /\ (clock' = clock /\ lastAction'.type = "REDO") =>
               /\ historyIndex' = Min(Len(history) - 1, historyIndex + 1)
               /\ history' = history
               /\ nextId' = nextId /\ status' = "ok"
               /\ historyIndex = Len(history) - 1 => present' = present ]_vars

\* a REDO has brought the index back to the last of three or more entries
C5_RedoReachedLastEntry ==
    lastAction.type = "REDO" /\ historyIndex = Len(history) - 1 /\ Len(history) >= 3

---------------------------------------------------------------------------
(* Properties of the task tree *)

\* where a path of ids leads in a forest: the index paths of the tasks it
\* resolves to (several when siblings share an id, none when a component
\* matches no task at its level)
RECURSIVE Positions(_, _)
Positions(tasks, idPath) ==
    IF idPath = <<>> THEN {}
    ELSE UNION { { <<i>> \o rest :
                     rest \in (IF Len(idPath) = 1 THEN { <<>> }
                               ELSE Positions(tasks[i].subtasks, Tail(idPath))) }
                 : i \in { k \in 1..Len(tasks) : tasks[k].id = idPath[1] } }

RECURSIVE TaskAt(_, _)
TaskAt(tasks, pos) ==
    IF Len(pos) = 1 THEN tasks[pos[1]] ELSE TaskAt(tasks[pos[1]].subtasks, Tail(pos))

\* the forest with the task at pos replaced by new, and nothing else touched
RECURSIVE ReplaceAt(_, _, _)
ReplaceAt(tasks, pos, new) ==
    [i \in 1..Len(tasks) |->
        IF i # pos[1] THEN tasks[i]
        ELSE IF Len(pos) = 1 THEN new
        ELSE [tasks[i] EXCEPT !.subtasks = ReplaceAt(tasks[i].subtasks, Tail(pos), new)]]

RECURSIVE WholeSubtreeIs(_, _)
WholeSubtreeIs(task, flag) ==
    /\ task.completed = flag
    /\ \A i \in 1..Len(task.subtasks) : WholeSubtreeIs(task.subtasks[i], flag)

RECURSIVE AnyCompleted(_)
AnyCompleted(tasks) ==
    \E i \in 1..Len(tasks) : tasks[i].completed \/ AnyCompleted(tasks[i].subtasks)

\* the tasks of a forest in preorder, each with its depth, its id and whether
\* it or one of its ancestors is completed
OutlineItems(tasks, depth, under) ==
    [i \in 1..Len(tasks) |->
        [task |-> tasks[i], depth |-> depth, gone |-> under \/ tasks[i].completed]]

OutlineEntry(item) == [depth |-> item.depth, id |-> item.task.id, gone |-> item.gone]

RECURSIVE OutlineWalk(_)
OutlineWalk(stack) ==
    IF Len(stack) = 0 THEN <<>>
    ELSE <<OutlineEntry(stack[1])>>
         \o OutlineWalk(OutlineItems(stack[1].task.subtasks, stack[1].depth + 1, stack[1].gone)
                        \o Tail(stack))

Outline(tasks) == OutlineWalk(OutlineItems(tasks, 0, FALSE))

UniqueIds(tasks) ==
    \A i, j \in 1..Len(Outline(tasks)) :
        i # j => Outline(tasks)[i].id # Outline(tasks)[j].id

\* the forest the last action was applied to, when it added an entry
Previous == history[historyIndex]

ToggledPath ==
    IF lastAction.type = "TOGGLE_TODO" THEN <<lastAction.payload.id>>
    ELSE lastAction.payload.idPath

\* C6: after TOGGLE_TODO or TOGGLE_NESTED_TASK resolves to a task T,
\* T.completed is the negation of its previous value and every task of T's
\* subtree, at every depth, has that new value
C6_ToggleCascades ==
    lastAction.type \in {"TOGGLE_TODO", "TOGGLE_NESTED_TASK"} =>
        \A pos \in Positions(Previous, ToggledPath) :
            WholeSubtreeIs(TaskAt(present, pos), ~TaskAt(Previous, pos).completed)

\* an active nested task over an active subtask has been toggled: both are
\* completed now
C6_NestedToggleOverMixedSubtree ==
    /\ lastAction.type = "TOGGLE_NESTED_TASK"
    /\ Len(lastAction.payload.idPath) = 2
    /\ \E pos \in Positions(Previous, lastAction.payload.idPath) :
           /\ ~TaskAt(Previous, pos).completed
           /\ Len(TaskAt(Previous, pos).subtasks) = 1
           /\ ~TaskAt(Previous, pos).subtasks[1].completed
           /\ TaskAt(present, pos).subtasks[1].completed

C8_ResolvedPathReplacesTask ==
    (result.fn = "findTaskAndUpdate" /\ UniqueIds(probe.tasks)) =>
        \A pos \in Positions(probe.tasks, probe.idPath) :
            /\ result.value = ReplaceAt(probe.tasks, pos,
                                        ApplyUpdate(probe.updateFunction, TaskAt(probe.tasks, pos)))
            /\ probe.updateFunction.kind = "identity" => result.value = probe.tasks

\* a subtask of the second of two roots has been given a new text
C8_SubtaskOfSecondRootUpdated ==
    /\ result.fn = "findTaskAndUpdate"
    /\ UniqueIds(probe.tasks)
    /\ Len(probe.tasks) = 2
    /\ probe.updateFunction.kind = "merge"
    /\ \E pos \in Positions(probe.tasks, probe.idPath) :
           pos = <<2, 1>> /\ TaskAt(result.value, pos).text = "b"

\* C9: after CLEAR_COMPLETED no task with completed = true remains, at any depth
C9_ClearLeavesNoneCompleted ==
    lastAction.type = "CLEAR_COMPLETED" => ~AnyCompleted(present)

\* a completed task two levels below an active root has been cleared
C9_ClearedAtThirdLevel ==
    /\ lastAction.type = "CLEAR_COMPLETED"
    /\ Len(Previous) = 1 /\ ~Previous[1].completed
    /\ Len(Previous[1].subtasks) = 1 /\ ~Previous[1].subtasks[1].completed
    /\ Len(Previous[1].subtasks[1].subtasks) = 1
    /\ Previous[1].subtasks[1].subtasks[1].completed
    /\ present[1].subtasks[1].subtasks = <<>>

\* C10: CLEAR_COMPLETED removes a completed task with its whole subtree; the
\* tasks that remain are exactly those that are not completed and have no
\* completed ancestor, at their depth and in their order
C10_ClearKeepsExactlyTheUndoomed ==
    lastAction.type = "CLEAR_COMPLETED" =>
        Outline(present)
            = FilterSeq(Outline(Previous),
                        { e \in { Outline(Previous)[i] : i \in 1..Len(Outline(Previous)) } : ~e.gone })

\* a completed root went with its active subtask, and the other root stayed
C10_ActiveSubtaskWentWithCompletedRoot ==
    /\ lastAction.type = "CLEAR_COMPLETED"
    /\ Len(Previous) = 2
    /\ Previous[1].completed
    /\ Len(Previous[1].subtasks) = 1 /\ ~Previous[1].subtasks[1].completed
    /\ Len(present) = 1 /\ present[1].id = Previous[2].id

\* the ids of the tasks of a forest, at every depth
IdsIn(tasks) == { Outline(tasks)[i].id : i \in 1..Len(Outline(tasks)) }

\* C11: once CLEAR_COMPLETED has been applied, no UNDO makes a task it
\* removed part of the present forest again
C11_ClearIsNotUndone ==
    [][ (/\ lastAction.type = "CLEAR_COMPLETED"
         /\ status = "ok"
         /\ historyIndex > 0
         /\ lastAction'.type = "UNDO")
        => IdsIn(present') \cap (IdsIn(Previous) \ IdsIn(present)) = {} ]_vars

\* the forest without the task at pos and its subtree, and nothing else touched
RECURSIVE RemoveAt(_, _)
RemoveAt(tasks, pos) ==
    IF Len(pos) = 1
    THEN SubSeq(tasks, 1, pos[1] - 1) \o SubSeq(tasks, pos[1] + 1, Len(tasks))
    ELSE [i \in 1..Len(tasks) |->
            IF i # pos[1] THEN tasks[i]
            ELSE [tasks[i] EXCEPT !.subtasks = RemoveAt(tasks[i].subtasks, Tail(pos))]]

DeletedPath ==
    IF lastAction.type = "DELETE_TODO" THEN <<lastAction.payload.id>>
    ELSE lastAction.payload.idPath

\* C12: deleting a task with N descendants (DELETE_TODO of a root id,
\* DELETE_NESTED_TASK of a valid path) in a forest with unique ids removes
\* that task and its N descendants; every other task stays, unchanged and
\* in order
C12_DeleteRemovesSubtreeOnly ==
    (lastAction.type \in {"DELETE_TODO", "DELETE_NESTED_TASK"} /\ UniqueIds(Previous)) =>
        \A pos \in Positions(Previous, DeletedPath) :
            /\ present = RemoveAt(Previous, pos)
            /\ Len(Outline(present))
                 = Len(Outline(Previous)) - Len(Outline(<<TaskAt(Previous, pos)>>))

\* the first of two subtasks has been deleted from under a root
C12_FirstOfTwoSubtasksDeleted ==
    /\ lastAction.type = "DELETE_NESTED_TASK"
    /\ UniqueIds(Previous)
    /\ Len(Previous) = 1 /\ Len(Previous[1].subtasks) = 2
    /\ Positions(Previous, lastAction.payload.idPath) = { <<1, 1>> }
    /\ present[1].subtasks = << Previous[1].subtasks[2] >>

\* C13: every dispatched action terminates: no transition leaves the reducer
\* looping, also not the toggle to completed of a task whose date is past
\* and whose recurrence is none, daily, weekly or monthly
C13_EveryDispatchTerminates == status # "hangs"

\* C14: no dispatched action throws, whatever forest an import or an update
\* has made the present
C14_NoDispatchThrows == status # "throws"

\* the ids of a forest in document order, also of tasks without subtasks
RECURSIVE IdList(_)
IdList(tasks) ==
    Concat([i \in 1..Len(tasks) |->
              <<tasks[i].id>> \o (IF "subtasks" \in DOMAIN tasks[i]
                                  THEN IdList(tasks[i].subtasks) ELSE <<>>)])

\* C15: in every reachable present forest the ids of all tasks, at every
\* depth, are pairwise distinct
C15_IdsPairwiseDistinct ==
    \A ids \in { IdList(present) } :
        \A i, j \in 1..Len(ids) : ids[i] = ids[j] => i = j

\* id, createdAt and number of subtasks of every task, in document order
RECURSIVE Identities(_)
Identities(tasks) ==
    Concat([i \in 1..Len(tasks) |->
              << [id |-> tasks[i].id,
                  createdAt |-> Get(tasks[i], "createdAt"),
                  subtasks |-> Len(tasks[i].subtasks)] >>
              \o Identities(tasks[i].subtasks)])

\* C16: UPDATE_TODO and UPDATE_NESTED_TASK, with any updates object, leave
\* the id, the createdAt and the subtasks of every existing task as they were
C16_UpdateKeepsIdentity ==
    [][ (lastAction'.type \in {"UPDATE_TODO", "UPDATE_NESTED_TASK"} /\ status' = "ok")
        => Identities(present') = Identities(present) ]_vars

\* every task of the forest, at every depth, has a subtasks field
RECURSIVE AllHaveSubtasks(_)
AllHaveSubtasks(tasks) ==
    \A i \in 1..Len(tasks) :
        "subtasks" \in DOMAIN tasks[i] /\ AllHaveSubtasks(tasks[i].subtasks)

\* C17: in every reachable present forest every task, at every depth, has
\* a subtasks field that is a sequence, never null or absent
C17_SubtasksAlwaysPresent == AllHaveSubtasks(present)

\* C18: REORDER_TODOS with dragId and dropId both ids of root tasks (the
\* root ids being distinct) puts the dragged task at the index the task
\* dropped on had; the other roots keep their order and every task, the
\* dragged one included, keeps its subtasks
C18_ReorderMovesDraggedToDropIndex ==
    (/\ lastAction.type = "REORDER_TODOS"
     /\ Cardinality(RootIds(Previous)) = Len(Previous)) =>
        \A i, j \in 1..Len(Previous) :
            (Previous[i].id = lastAction.payload.dragId
               /\ Previous[j].id = lastAction.payload.dropId) =>
                /\ present[j] = Previous[i]
                /\ RemoveAt(present, <<j>>) = RemoveAt(Previous, <<i>>)

\* the first of three roots has been dropped on the third
C18_FirstRootDroppedOnThird ==
    /\ lastAction.type = "REORDER_TODOS"
    /\ Len(Previous) = 3
    /\ Cardinality(RootIds(Previous)) = 3
    /\ lastAction.payload.dragId = Previous[1].id
    /\ lastAction.payload.dropId = Previous[3].id
    /\ present = << Previous[2], Previous[3], Previous[1] >>

\* C19: ADD_TODO puts the new task in front of the roots, ADD_NESTED_TASK
\* with a path that resolves to a parent (in a forest with unique ids) puts
\* it in front of that parent's subtasks; the new task is not completed and
\* has no subtasks, and every task there was stays as it was, in its place
C19_AddPutsNewTaskInFront ==
    /\ lastAction.type = "ADD_TODO" =>
          /\ present # <<>>
          /\ ~present[1].completed /\ present[1].subtasks = <<>>
          /\ Tail(present) = Previous
    /\ (lastAction.type = "ADD_NESTED_TASK" /\ UniqueIds(Previous)) =>
          \A pos \in Positions(Previous, lastAction.payload.idPath) :
              \E sub \in { TaskAt(present, pos).subtasks } :
                  /\ sub # <<>>
                  /\ ~sub[1].completed /\ sub[1].subtasks = <<>>
                  /\ present = ReplaceAt(Previous, pos,
                                         [TaskAt(Previous, pos) EXCEPT
                                              !.subtasks = <<sub[1]>> \o @])

\* a subtask has been added to a subtask that had one of its own
C19_SubtaskAddedInFrontOfSibling ==
    /\ lastAction.type = "ADD_NESTED_TASK"
    /\ UniqueIds(Previous)
    /\ Positions(Previous, lastAction.payload.idPath) = { <<1, 1>> }
    /\ Len(Previous[1].subtasks[1].subtasks) = 1
    /\ Len(present[1].subtasks[1].subtasks) = 2
    /\ present[1].subtasks[1].subtasks[2] = Previous[1].subtasks[1].subtasks[1]

\* C20: after every transition that changes the present forest, UNDO and
\* REDO included, the persistence effect is due again, so whenever the last
\* write is done the stored item is the serialization of the present forest
\* and of nothing else
C20_WrittenSnapshotIsPresent ==
    persist = "written" => localTodos = Stringify(present)

\* the write after an UNDO has stored the forest the UNDO went back to
C20_WrittenAfterUndo ==
    /\ lastAction.type = "UNDO"
    /\ persist = "written"
    /\ historyIndex + 1 < Len(history)
    /\ history[historyIndex + 2] # present
    /\ localTodos = Stringify(present)
    /\ localTodos # Stringify(history[historyIndex + 2])

\* C21: a failed write of the snapshot leaves the present forest, the
\* history and historyIndex as they were, and the dispatch after it is
\* handled as any other: its result is recorded and its write is due
C21_FailedWriteLeavesSessionAlone ==
    [][ /\ (persist = "pending" /\ persist' = "failed")
            => (history' = history /\ historyIndex' = historyIndex /\ status' = "ok")
        /\ (persist = "failed" /\ lastAction' # lastAction)
            => \E next \in { undoable([history |-> history, historyIndex |-> historyIndex],
                                       lastAction', Env) } :
                   /\ history' = next.history
                   /\ historyIndex' = next.historyIndex
                   /\ (historyIndex' # historyIndex => persist' = "pending") ]_vars

\* an action has been recorded while the stored item is that of a forest
\* no longer in the history: the write after the UNDO before it had failed
C21_RecordedAfterFailedWrite ==
    /\ IsReducerAction(lastAction)
    /\ persist = "pending"
    /\ historyIndex = 1 /\ Len(history) = 2
    /\ localTodos # Stringify(history[1])
    /\ localTodos # Stringify(history[2])

\* C22: an import whose file does not parse, or parses to a value that is
\* no array, dispatches nothing: history and historyIndex, and so the
\* present forest, are those of before
C22_RejectedImportDispatchesNothing ==
    (/\ result.fn = "handleImport"
     /\ (probe.text.k = "json" => probe.text.v.k # "array")) =>
        /\ result.dispatched = <<>>
        /\ history = result.before.history
        /\ historyIndex = result.before.historyIndex

\* a file holding the text null has been handled over a stored forest
C22_NullFileHandled ==
    /\ result.fn = "handleImport"
    /\ probe.text = JsonText(JsonNull)
    /\ present # <<>>

\* C23: IMPORT_TODOS makes the present forest the payload as it is, whatever
\* the forest before and whatever the tasks of the payload
C23_ImportInstallsPayload ==
    (lastAction.type = "IMPORT_TODOS" /\ status = "ok") =>
        /\ present = lastAction.payload.todos
        /\ historyIndex > 0

\* an array with a task that has no subtasks has replaced a forest of tasks
C23_UncheckedArrayOverStoredForest ==
    /\ lastAction.type = "IMPORT_TODOS"
    /\ lastAction.payload.todos \in UncheckedForests
    /\ historyIndex > 0
    /\ Previous # <<>>
    /\ present = lastAction.payload.todos

\* C24: at startup the initial forest is the stored snapshot when its text
\* parses to an array, and the empty forest when there is no item, when it
\* does not parse or when it parses to something else; the history has that
\* one entry and historyIndex is 0
C24_StartsFromSnapshotOrEmpty ==
    result.fn = "getInitialState" =>
        /\ history = << IF probe.localData.k = "json" /\ probe.localData.v.k = "array"
                        THEN probe.localData.v.v ELSE <<>> >>
        /\ historyIndex = 0
        /\ present = result.value

\* the app has started over a stored snapshot of a root with a subtask
C24_StartedFromStoredSnapshot ==
    /\ result.fn = "getInitialState"
    /\ probe.localData.k = "json"
    /\ Len(history) = 1
    /\ Len(present) = 1
    /\ Len(present[1].subtasks) = 1

\* C27: an action of a type the reducer does not recognize leaves history
\* and historyIndex, and so the present forest, unchanged
C27_UnrecognizedChangesNothing ==
    [][ (lastAction'.type = "NOOP" /\ DispatchReturns)
        => (history' = history /\ historyIndex' = historyIndex) ]_vars

\* an unrecognized action has been dispatched between an UNDO and what
\* could be redone, on a forest with a task
C27_UnrecognizedWithRedoAhead ==
    /\ lastAction.type = "NOOP"
    /\ canUndo /\ canRedo
    /\ present # <<>>

\* the path a toggle addresses its task by
TogglePathOf(action) ==
    IF action.type = "TOGGLE_TODO" THEN <<action.payload.id>> ELSE action.payload.idPath

\* C28: a toggle that returns gives the target task, when it becomes
\* completed and has a recurrence set, the recurrence calculator's result
\* for its dueDate and for its startDate; when it becomes active or has no
\* recurrence, its dueDate and startDate are what they were
C28_ToggleRecomputesDatesOnCompletionOnly ==
    (/\ result.fn = "todoReducer"
     /\ probe.action.type \in {"TOGGLE_TODO", "TOGGLE_NESTED_TASK"}
     /\ result.value.outcome = "returned") =>
        \A pos \in Positions(probe.state, TogglePathOf(probe.action)) :
            \A old \in { TaskAt(probe.state, pos) }, new \in { TaskAt(result.value.value, pos) } :
                \A field \in {"dueDate", "startDate"} :
                    Get(new, field)
                      = IF ~old.completed /\ "recurrence" \in DOMAIN old /\ old.recurrence # ""
                        THEN getNextRecurrenceDate(Get(old, field), old.recurrence, probe.now)
                        ELSE Get(old, field)

\* a completed root with a monthly recurrence and a due date long past has
\* been made active, and is due when it was
C28_RecurringTaskReactivated ==
    /\ result.fn = "todoReducer"
    /\ probe.action.type = "TOGGLE_TODO"
    /\ probe.state[1].completed
    /\ "recurrence" \in DOMAIN probe.state[1]
    /\ probe.state[1].recurrence = "monthly"
    /\ Get(probe.state[1], "dueDate") = JsDate(20231231)
    /\ probe.now.date = 20240315
    /\ ~result.value.value[1].completed
    /\ result.value.value[1].dueDate = JsDate(20231231)

\* C29: on every forest, the root-level toggle, delete and update of an id
\* x end as the nested action with the path <<x>> ends, and when they return
\* they return the same forest
C29_RootActionIsNestedActionOfOneId ==
    result.fn = "rootAndNested" =>
        /\ result.root.outcome = result.nested.outcome
        /\ result.root.outcome = "returned" => result.root.value = result.nested.value

\* the second of two roots has been deleted by its id and by its path, and
\* the first is what both leave
C29_SecondRootDeletedBothWays ==
    /\ result.fn = "rootAndNested"
    /\ probe.action.type = "DELETE_TODO"
    /\ Len(probe.state) = 2
    /\ probe.state[1].id = 1
    /\ probe.state[2].id = 2
    /\ result.root.outcome = "returned"
    /\ result.root.value = <<probe.state[1]>>
    /\ result.nested.value = <<probe.state[1]>>

---------------------------------------------------------------------------
(* Properties of the recurrence calculator *)

\* the days of year y before its month m, and the number of day n counted
\* from the last day of 2022
RECURSIVE DaysBefore(_, _)
DaysBefore(y, m) == IF m = 1 THEN 0 ELSE DaysBefore(y, m - 1) + DaysInMonth(y, m - 1)
DayNumber(n) ==
    365 * (YearOf(n) - 2023) + Cardinality({ y \in 2023..(YearOf(n) - 1) : IsLeap(y) })
        + DaysBefore(YearOf(n), MonthOf(n)) + DayOf(n)

\* the same day of the month k months after day n (a day the month does
\* not have rolls over once, as Date does)
PlusMonths(n, k) ==
    Normalise(YearOf(n) + (MonthOf(n) + k - 1) \div 12, ((MonthOf(n) + k - 1) % 12) + 1,
              DayOf(n))

\* day r is d plus a number of days or weeks, is not before now, and the
\* day one period before it, if not before d, is before now
SmallestDayMultiple(r, d, step, now) ==
    /\ DayNumber(r) >= DayNumber(d)
    /\ (DayNumber(r) - DayNumber(d)) % step = 0
    /\ ~Before(r, now)
    /\ r # d => \/ DayNumber(r) - step < DayNumber(now.date)
                \/ (DayNumber(r) - step = DayNumber(now.date) /\ now.half > 0)

\* C25: the recurrence calculator returns null when the start date or the
\* period is absent; for a start date d and a period daily, weekly or
\* monthly it returns the first of d, d + 1 period, d + 2 periods, ... that
\* is not before the time of the call, which is d itself when d is not past
C25_NextOccurrenceIsSmallestMultiple ==
    result.fn = "getNextRecurrenceDate" =>
        /\ (~Truthy(probe.startDate) \/ probe.recurrence = "") => result.value = JsNull
        /\ (Truthy(probe.startDate) /\ probe.recurrence \in {"daily", "weekly"}) =>
              /\ result.value.k = "date"
              /\ SmallestDayMultiple(result.value.v, probe.startDate.v,
                                     IF probe.recurrence = "daily" THEN 1 ELSE 7, probe.now)
        /\ (Truthy(probe.startDate) /\ probe.recurrence = "monthly") =>
              \E k \in 0..MaxPeriods :
                  /\ result.value = JsDate(PlusMonths(probe.startDate.v, k))
                  /\ ~Before(PlusMonths(probe.startDate.v, k), probe.now)
                  /\ \A j \in 0..(k - 1) : Before(PlusMonths(probe.startDate.v, j), probe.now)

---------------------------------------------------------------------------
(* Properties of the due-soon check *)

\* C26: the due-soon check runs once per hour of running time, whatever is
\* dispatched in between: never more than an hour passes without a check
C26_CheckedEveryHour == unchecked <= CheckPeriod

---------------------------------------------------------------------------
(* Properties of the progress percentage *)

\* the tasks below a task, at any depth
RECURSIVE DescendantsCount(_)
DescendantsCount(task) ==
    IF "subtasks" \notin DOMAIN task \/ task.subtasks = <<>> THEN 0
    ELSE LET first == Head(task.subtasks)
         IN  1 + DescendantsCount(first)
               + DescendantsCount(Spread(task, [subtasks |-> Tail(task.subtasks)]))

\* the completed tasks below a task, at any depth
RECURSIVE CompletedDescendantsCount(_)
CompletedDescendantsCount(task) ==
    IF "subtasks" \notin DOMAIN task \/ task.subtasks = <<>> THEN 0
    ELSE LET first == Head(task.subtasks)
         IN  (IF first.completed THEN 1 ELSE 0) + CompletedDescendantsCount(first)
               + CompletedDescendantsCount(Spread(task, [subtasks |-> Tail(task.subtasks)]))

\* round(100 * completed / total), halves up
RoundedPercentage(completed, total) ==
    CHOOSE n \in 0..100 : 2 * total * n <= 200 * completed + total
                          /\ 200 * completed + total < 2 * total * (n + 1)

\* C30: the progress of a task is round(100 * completed / total) over the
\* counted tasks: its descendants, and in the nested item the task itself as
\* well; a task with no subtasks reports 0, and 100 as a completed root
C30_ProgressIsRoundedShareOfCounted ==
    result.fn = "getProgress" =>
        result.value
          = IF DescendantsCount(probe.task) = 0
            THEN (IF probe.item = "TodoItem" /\ probe.task.completed THEN 100 ELSE 0)
            ELSE IF probe.item = "TodoItem"
            THEN RoundedPercentage(CompletedDescendantsCount(probe.task),
                                   DescendantsCount(probe.task))
            ELSE RoundedPercentage(CompletedDescendantsCount(probe.task)
                                     + (IF probe.task.completed THEN 1 ELSE 0),
                                   DescendantsCount(probe.task) + 1)

---------------------------------------------------------------------------
(* Properties of the board *)

\* the columns a task is shown in
ColumnsOf(columns, t) ==
    { c \in {"overdue", "upcoming", "completed"} :
        \E j \in 1..Len(columns[c]) : columns[c][j] = t }

\* C31: every root task is in at most one of the columns overdue, upcoming
\* and completed, and the columns together hold no more tasks than the
\* forest; a task that is not completed and has no due date is in none, and
\* a completed task is in the completed column only
C31_AtMostOneColumn ==
    result.fn = "getKanbanColumns" =>
        /\ Len(result.value.overdue) + Len(result.value.upcoming) + Len(result.value.completed)
             <= Len(probe.todos)
        /\ \A i \in 1..Len(probe.todos) :
             \A t \in { probe.todos[i] } :
                /\ Cardinality(ColumnsOf(result.value, t)) <= 1
                /\ (~t.completed /\ ~Truthy(Get(t, "dueDate")))
                     => ColumnsOf(result.value, t) = {}
                /\ t.completed => ColumnsOf(result.value, t) = {"completed"}

\* at midday a completed task that was due the day before stands next to an
\* active one due the same day: the first is completed, the second overdue
C31_CompletedNextToOverdue ==
    /\ result.fn = "getKanbanColumns"
    /\ probe.now = Now(1)
    /\ Len(probe.todos) = 2
    /\ probe.todos[1].completed
    /\ Get(probe.todos[1], "dueDate") = JsDate(20240129)
    /\ ~probe.todos[2].completed
    /\ Get(probe.todos[2], "dueDate") = JsDate(20240130)
    /\ result.value = [overdue |-> <<probe.todos[2]>>, upcoming |-> <<>>,
                       completed |-> <<probe.todos[1]>>]

---------------------------------------------------------------------------
(* Properties of the reordering *)

\* b holds the elements of a, each as often as a does
IsPermutation(a, b) ==
    /\ Len(a) = Len(b)
    /\ \E f \in [1..Len(a) -> 1..Len(a)] :
          /\ \A i, j \in 1..Len(a) : f[i] = f[j] => i = j
          /\ \A i \in 1..Len(a) : b[i] = a[f[i]]

\* C32: REORDER_TODOS on any forest, with any dragId and dropId, returns a
\* permutation of the roots it was given
C32_ReorderPermutesRoots ==
    (result.fn = "todoReducer" /\ probe.action.type = "REORDER_TODOS") =>
        /\ result.value.outcome = "returned"
        /\ IsPermutation(probe.state, result.value.value)

---------------------------------------------------------------------------
(* Properties of the frame of a toggle *)

\* the positions of all tasks of a forest, at every depth
RECURSIVE AllPositions(_)
AllPositions(tasks) ==
    UNION { { <<i>> } \cup { <<i>> \o q : q \in AllPositions(tasks[i].subtasks) }
            : i \in 1..Len(tasks) }

\* position q is position p or lies below it
AtOrBelow(q, p) == Len(p) <= Len(q) /\ SubSeq(q, 1, Len(p)) = p

\* C33: a toggle keeps the shape of the forest and changes the completed
\* flag of no task other than the tasks it resolves to and their
\* descendants: ancestors, siblings and all other tasks keep theirs
C33_ToggleLeavesOtherFlags ==
    lastAction.type \in {"TOGGLE_TODO", "TOGGLE_NESTED_TASK"} =>
        /\ AllPositions(present) = AllPositions(Previous)
        /\ \A q \in AllPositions(Previous) :
              (\A p \in Positions(Previous, ToggledPath) : ~AtOrBelow(q, p)) =>
                  TaskAt(present, q).completed = TaskAt(Previous, q).completed

\* the only subtask of an active root has been completed, and the root is
\* still active
C33_OnlyChildCompletedUnderActiveParent ==
    /\ lastAction.type = "TOGGLE_NESTED_TASK"
    /\ Len(lastAction.payload.idPath) = 2
    /\ Len(Previous) = 1
    /\ ~Previous[1].completed
    /\ Len(Previous[1].subtasks) = 1
    /\ ~Previous[1].subtasks[1].completed
    /\ present[1].subtasks[1].completed
    /\ ~present[1].completed

---------------------------------------------------------------------------
(* Properties of the creation of tasks *)

\* C34: the root that ADD_TODO creates has no startDate and no recurrence,
\* whatever the payload gives; the subtask that ADD_NESTED_TASK creates has
\* the startDate and the recurrence of the payload; and toggling the new
\* root, once or twice, returns and leaves its dueDate what ADD_TODO made it
C34_NewRootHasNoRecurrence ==
    /\ (result.fn = "todoReducer" /\ probe.action.type = "ADD_TODO") =>
          /\ result.value.outcome = "returned"
          /\ Len(result.value.value) = Len(probe.state) + 1
          /\ "startDate" \notin DOMAIN result.value.value[1]
          /\ "recurrence" \notin DOMAIN result.value.value[1]
    /\ (result.fn = "todoReducer" /\ probe.action.type = "ADD_NESTED_TASK") =>
          /\ result.value.outcome = "returned"
          /\ \A pos \in Positions(probe.state, probe.action.payload.idPath) :
                \A new \in { TaskAt(result.value.value, pos).subtasks[1] } :
                    /\ new.id = 0
                    /\ new.startDate = probe.action.payload.startDate
                    /\ new.recurrence = probe.action.payload.recurrence
    /\ result.fn = "addThenToggle" =>
          /\ result.once.outcome = "returned"
          /\ result.twice.outcome = "returned"
          /\ result.once.value[1].completed
          /\ ~result.twice.value[1].completed
          /\ result.once.value[1].dueDate = result.added.value[1].dueDate
          /\ result.twice.value[1].dueDate = result.added.value[1].dueDate

\* a root submitted with a due date long past, a start date and a monthly
\* recurrence has been created and completed, and is due when it was
C34_RecurringFormCompletedAsRoot ==
    /\ result.fn = "addThenToggle"
    /\ probe.form.recurrence = "monthly"
    /\ probe.form.startDate = JsDate(20240125)
    /\ probe.form.dueDate = JsDate(20231231)
    /\ probe.now.date = 20240315
    /\ result.once.value[1].completed
    /\ result.once.value[1].dueDate = JsDate(20231231)

---------------------------------------------------------------------------
(* Properties of UNDO and REDO taken together *)

\* the wrapper state, and what the wrapper makes of a state with UNDO and
\* with REDO
WrapperState == [history |-> history, historyIndex |-> historyIndex]
AfterUndoRedo(state, type) ==
    LET next == undoable(state, [type |-> type, payload |-> [id |-> 0]], Env)
    IN  [history |-> next.history, historyIndex |-> next.historyIndex]

\* C35: in every reachable wrapper state with historyIndex > 0, UNDO followed
\* by REDO gives back the same history and historyIndex, and in every one
\* with historyIndex < length(history) - 1, REDO followed by UNDO does
C35_UndoAndRedoAreInverses ==
    /\ canUndo =>
          AfterUndoRedo(AfterUndoRedo(WrapperState, "UNDO"), "REDO") = WrapperState
    /\ canRedo =>
          AfterUndoRedo(AfterUndoRedo(WrapperState, "REDO"), "UNDO") = WrapperState

\* a REDO after UNDOs has stopped in the middle of a history: there is an
\* entry to undo to and one to redo to
C35_RedoneToTheMiddle ==
    /\ lastAction.type = "REDO"
    /\ canUndo
    /\ canRedo
    /\ Len(history) >= 3

---------------------------------------------------------------------------
(* Properties of what the due-soon check reads *)

\* C36: whenever the callback of the interval runs, the forest it scans is
\* the present of that moment, whatever transitions (UNDO and REDO among
\* them) came before, and the callback changes neither history nor
\* historyIndex
C36_CheckScansThePresent ==
    [][ (timer = CheckPeriod /\ timer' = 0) =>
            /\ scanned'.done
            /\ scanned'.todos = present
            /\ history' = history
            /\ historyIndex' = historyIndex ]_vars

\* a root has been toggled, an hour has passed and the check has scanned
\* the forest the toggle made
C36_ScannedAfterToggle ==
    /\ lastAction.type = "TOGGLE_TODO"
    /\ Len(history) = 2
    /\ historyIndex = 1
    /\ present # history[1]
    /\ scanned.done
    /\ scanned.todos = present
    /\ unchecked = 0

====
